---------------------------- MODULE Spec2Model ----------------------------
(***************************************************************************)
(* A model of luma-sys/go-db-store: the generic Store facade over a        *)
(* relational backend (store/sql.go, SQLStore) and a document backend      *)
(* (store/store.go and store/mongo.go, mongoStore).                        *)
(*                                                                         *)
(* Text is modelled as a sequence of string tokens; a filter-map key is a  *)
(* sequence of one-character strings so that strings.Contains,             *)
(* strings.Split and sort.Strings are computed, not assumed.               *)
(***************************************************************************)
EXTENDS Integers, Sequences, FiniteSets, TLC

VARIABLES
    filters,    \* the filter map handed to buildWhereClause (key -> value)
    iter,       \* the order in which `for key := range filters` yielded the keys
    plan,       \* the (clause, values) pair of the latest compilation
    prevIter,   \* the iteration order of the compilation before it
    prevPlan,   \* the pair of the compilation before it
    driver,     \* the backend of the store: a SQL dialect, or "mongodb"
    table,      \* the stored rows (documents), in storage order
    qres,       \* the result of the latest query operation
    uniqueName, \* whether the table has a unique index on name
    storeUpsertFilter, \* the conflict filter the store of mongo.go keeps
    callsLeft,  \* how many more calls the behaviour makes
    call,       \* the write call in progress or just ended
    tx,         \* the transaction of that call
    prevCall    \* the write call that ended before it

filterVars == <<filters, iter, plan, prevIter, prevPlan>>

queryVars == <<driver, table, qres>>

writeVars == <<uniqueName, storeUpsertFilter, callsLeft, call, tx, prevCall>>

vars == <<filters, iter, plan, prevIter, prevPlan, driver, table, qres,
          uniqueName, storeUpsertFilter, callsLeft, call, tx, prevCall>>

-----------------------------------------------------------------------------
(* Values of type `any` that occur as filter values and as column values.  *)
(* Every value carries all four fields so that values of different Go      *)
(* types are comparable records.                                           *)

IntV(i)  == [kind |-> "int",  n |-> i, s |-> <<>>, l |-> <<>>]
StrV(cs) == [kind |-> "str",  n |-> 0, s |-> cs,   l |-> <<>>]
BoolV(b) == [kind |-> "bool", n |-> IF b THEN 1 ELSE 0, s |-> <<>>, l |-> <<>>]
IntsV(q) == [kind |-> "ints", n |-> 0, s |-> <<>>, l |-> q]
NilV     == [kind |-> "nil",  n |-> 0, s |-> <<>>, l |-> <<>>]

-----------------------------------------------------------------------------
(* Byte order of the characters used in keys (ASCII: '_' is 95, the        *)
(* lower-case letters follow from 97).                                     *)

Alphabet ==
    <<"_", "a", "b", "c", "d", "e", "f", "g", "h", "i", "j", "k", "l", "m",
      "n", "o", "p", "q", "r", "s", "t", "u", "v", "w", "x", "y", "z">>

Code(c) == CHOOSE i \in 1..Len(Alphabet) : Alphabet[i] = c

\* a < b as Go compares strings: byte-wise, a proper prefix first
RECURSIVE StringLess(_, _)
StringLess(a, b) ==
    IF b = <<>> THEN FALSE
    ELSE IF a = <<>> THEN TRUE
    ELSE IF Code(Head(a)) < Code(Head(b)) THEN TRUE
    ELSE IF Code(Head(a)) > Code(Head(b)) THEN FALSE
    ELSE StringLess(Tail(a), Tail(b))

\* insert key k into the sorted sequence q
RECURSIVE InsertSorted(_, _)
InsertSorted(k, q) ==
    IF q = <<>> THEN <<k>>
    ELSE IF StringLess(k, Head(q)) THEN <<k>> \o q
    ELSE <<Head(q)>> \o InsertSorted(k, Tail(q))

RECURSIVE SortStringsOf(_)
SortStringsOf(keys) ==
    IF keys = <<>> THEN <<>>
    ELSE InsertSorted(Head(keys), SortStringsOf(Tail(keys)))

\* the keys left in the order the map iteration produced them
UnsortedKeys(keys) == keys

\* sort.Strings(keys)
SortStrings(keys) == SortStringsOf(keys)

-----------------------------------------------------------------------------
(* strings.Contains(key, "__") and strings.Split(key, "__")                *)

\* the least i with s[i] = s[i+1] = "_", or 0 when "__" does not occur
IndexSep(s) ==
    IF \E i \in 1..(Len(s) - 1) : s[i] = "_" /\ s[i + 1] = "_"
    THEN CHOOSE i \in 1..(Len(s) - 1) :
            /\ s[i] = "_" /\ s[i + 1] = "_"
            /\ \A j \in 1..(i - 1) : ~(s[j] = "_" /\ s[j + 1] = "_")
    ELSE 0

ContainsSep(s) == IndexSep(s) # 0

RECURSIVE SplitSep(_)
SplitSep(s) ==
    IF IndexSep(s) = 0 THEN <<s>>
    ELSE <<SubSeq(s, 1, IndexSep(s) - 1)>>
            \o SplitSep(SubSeq(s, IndexSep(s) + 2, Len(s)))

-----------------------------------------------------------------------------
(* The operator suffixes of the filter vocabulary, as raw key text.        *)

S_like        == <<"l", "i", "k", "e">>
S_ilike       == <<"i", "l", "i", "k", "e">>
S_not_like    == <<"n", "o", "t", "_", "l", "i", "k", "e">>
S_gt          == <<"g", "t">>
S_lt          == <<"l", "t">>
S_gte         == <<"g", "t", "e">>
S_lte         == <<"l", "t", "e">>
S_in          == <<"i", "n">>
S_not         == <<"n", "o", "t">>
S_is_null     == <<"i", "s", "_", "n", "u", "l", "l">>
S_is_not_null == <<"i", "s", "_", "n", "o", "t", "_", "n", "u", "l", "l">>

\* the switch on parts[1]; an unlisted suffix leaves operator at "="
OperatorOf(suffix) ==
    CASE suffix = S_like        -> "LIKE"
      [] suffix = S_ilike       -> "ILIKE_COMPAT"
      [] suffix = S_not_like    -> "NOT LIKE"
      [] suffix = S_gt          -> ">"
      [] suffix = S_lt          -> "<"
      [] suffix = S_gte         -> ">="
      [] suffix = S_lte         -> "<="
      [] suffix = S_in          -> "IN"
      [] suffix = S_not         -> "!="
      [] suffix = S_is_null     -> "IS NULL"
      [] suffix = S_is_not_null -> "IS NOT NULL"
      [] OTHER                  -> "="

\* operator and field as the loop body derives them from one key
KeyOperator(key) ==
    IF ContainsSep(key) THEN OperatorOf(SplitSep(key)[2]) ELSE "="

KeyField(key) ==
    IF ContainsSep(key) THEN SplitSep(key)[1] ELSE key

\* "?, ?, ?" for n values: strings.Join(placeholders, ", ")
RECURSIVE JoinPlaceholders(_)
JoinPlaceholders(n) ==
    IF n = 0 THEN <<>>
    ELSE IF n = 1 THEN <<"?">>
    ELSE <<"?", ", ">> \o JoinPlaceholders(n - 1)

\* the elements of a slice value, each boxed as `any`
SliceElems(value) == [i \in 1..Len(value.l) |-> IntV(value.l[i])]

\* whether the IN branch obtains a slice from the value
IsSlice(value) == value.kind = "ints"

\* an IN predicate that binds only the first element of the slice
InValuesFirstOnly(value) ==
    IF IsSlice(value) /\ Len(value.l) > 0 THEN <<IntV(value.l[1])>>
    ELSE IF IsSlice(value) THEN <<>> ELSE <<value>>

\* the values one IN predicate appends, in the order of the slice
InValues(value) == IF IsSlice(value) THEN SliceElems(value) ELSE <<value>>

\* One iteration of the loop over the sorted keys: the predicate appended
\* to whereConditions (text), the values appended to values (vals), and the
\* predicate as the database reads it (field, op) with the key it came from.
Condition(key, value) ==
    LET operator == KeyOperator(key)
        field    == KeyField(key)
    IN  IF operator = "IS NULL" \/ operator = "IS NOT NULL"
        THEN [key |-> key, field |-> field, op |-> operator,
              text |-> field \o <<" ", operator>>,
              vals |-> <<>>]
        ELSE IF operator = "ILIKE_COMPAT"
        THEN [key |-> key, field |-> field, op |-> "UPPER LIKE UPPER",
              text |-> <<"UPPER(">> \o field \o <<") LIKE UPPER(", "?", ")">>,
              vals |-> <<value>>]
        ELSE IF operator = "IN"
        THEN [key |-> key, field |-> field, op |-> "IN",
              text |-> field \o <<" ", "IN", " (">>
                         \o (IF IsSlice(value)
                             THEN JoinPlaceholders(Len(value.l))
                             ELSE <<"?">>)
                         \o <<")">>,
              vals |-> InValues(value)]
        ELSE [key |-> key, field |-> field, op |-> operator,
              text |-> field \o <<" ", operator, " ", "?">>,
              vals |-> <<value>>]

\* strings.Join(whereConditions, " AND ")
RECURSIVE JoinAnd(_)
JoinAnd(conds) ==
    IF conds = <<>> THEN <<>>
    ELSE IF Len(conds) = 1 THEN conds[1].text
    ELSE conds[1].text \o <<" AND ">> \o JoinAnd(Tail(conds))

RECURSIVE ConcatVals(_)
ConcatVals(conds) ==
    IF conds = <<>> THEN <<>>
    ELSE conds[1].vals \o ConcatVals(Tail(conds))

\* buildWhereClause(filters), the map iteration having yielded the keys in
\* the order `it`
buildWhereClause(f, it) ==
    IF Len(it) = 0
    THEN [clause |-> <<>>, values |-> <<>>, conds |-> <<>>]
    ELSE LET keys  == SortStrings(it)
             conds == [i \in 1..Len(keys) |-> Condition(keys[i], f[keys[i]])]
         IN  [clause |-> <<" WHERE ">> \o JoinAnd(conds),
              values |-> ConcatVals(conds),
              conds  |-> conds]

-----------------------------------------------------------------------------
(* Inputs of the filter compiler.                                          *)

MaxKeys == 2

F_age  == <<"a", "g", "e">>
F_name == <<"n", "a", "m", "e">>
Sep    == <<"_", "_">>

K_age              == F_age
K_name             == F_name
K_age_not          == F_age \o Sep \o S_not
K_age_gt           == F_age \o Sep \o S_gt
K_age_gte          == F_age \o Sep \o S_gte
K_age_lt           == F_age \o Sep \o S_lt
K_age_lte          == F_age \o Sep \o S_lte
K_age_in           == F_age \o Sep \o S_in
K_name_like        == F_name \o Sep \o S_like
K_name_ilike       == F_name \o Sep \o S_ilike
K_name_not_like    == F_name \o Sep \o S_not_like
K_name_is_null     == F_name \o Sep \o S_is_null
K_name_is_not_null == F_name \o Sep \o S_is_not_null
K_age_foo          == F_age \o Sep \o <<"f", "o", "o">>
K_age_x_gt         == F_age \o Sep \o <<"x">> \o Sep \o S_gt

FilterKeys ==
    {K_age, K_name, K_age_not, K_age_gt, K_age_gte, K_age_lt, K_age_lte,
     K_age_in, K_name_like, K_name_ilike, K_name_not_like, K_name_is_null,
     K_name_is_not_null, K_age_foo, K_age_x_gt}

P_a == <<"%", "a", "%">>

\* the values a caller passes under a key: a sequence or a scalar for
\* `in`, a flag for the null predicates, a pattern for the LIKE family,
\* a scalar of the column's type otherwise
FilterValuesOf(key) ==
    IF KeyOperator(key) = "IN"
    THEN {IntsV(<<25, 35>>), IntsV(<<>>), IntV(30)}
    ELSE IF KeyOperator(key) \in {"IS NULL", "IS NOT NULL"}
    THEN {BoolV(TRUE), BoolV(FALSE)}
    ELSE IF KeyOperator(key) \in {"LIKE", "NOT LIKE", "ILIKE_COMPAT"}
    THEN {StrV(P_a)}
    ELSE IF KeyField(key) = F_name
    THEN {StrV(<<"a">>), NilV}
    ELSE {IntV(30), IntV(25)}

FilterMapsOver(keys, n) ==
    UNION {{f \in [K -> UNION {FilterValuesOf(k) : k \in K}] :
                \A k \in K : f[k] \in FilterValuesOf(k)} :
           K \in {K \in SUBSET keys : Cardinality(K) <= n}}

\* the orders in which a map iteration can yield the keys of f
IterationOrders(f) ==
    {q \in [1..Cardinality(DOMAIN f) -> DOMAIN f] :
        \A i, j \in 1..Cardinality(DOMAIN f) : i # j => q[i] # q[j]}

NoPlan == [clause |-> <<"-">>, values |-> <<>>, conds |-> <<>>]

\* no query operation has returned yet
NoResult ==
    [op |-> "none", rows |-> <<>>, count |-> -1, err |-> "",
     before |-> <<>>,
     opts |-> [Page |-> 0, Limit |-> 0, SortBy |-> "", OrderBy |-> ""],
     nilFilter |-> FALSE]

\* the nil *StoreUpsertFilter; also what a store that keeps no conflict
\* filter of its own (store.go) holds
NilFilter == [UpsertFieldKey |-> "", UpsertBsonKey |-> ""]

\* no write call has been made yet
NoCall ==
    [op |-> "none", pc |-> "idle", batch |-> <<>>, f |-> <<>>, pos |-> 0,
     before |-> <<>>, fn |-> [result |-> "", err |-> ""],
     err |-> "", result |-> "", count |-> 0,
     entity |-> <<>>, matched |-> 0, modified |-> 0, ids |-> {},
     used |-> <<>>, isNew |-> FALSE, auto |-> FALSE,
     query |-> <<>>, args |-> <<>>]

\* no transaction has been begun
NoTx == [state |-> "none", work |-> <<>>, commits |-> 0, rollbacks |-> 0]

\* the write operations are not part of the behaviour
NoWrites ==
    /\ uniqueName = FALSE
    /\ storeUpsertFilter = NilFilter
    /\ callsLeft = 0
    /\ call = NoCall
    /\ tx = NoTx
    /\ prevCall = NoCall

InitFilter ==
    /\ filters \in FilterMapsOver(FilterKeys, MaxKeys)
    /\ iter = <<>>
    /\ plan = NoPlan
    /\ prevIter = <<>>
    /\ prevPlan = NoPlan
    /\ driver = "sqlite"
    /\ table = <<>>
    /\ qres = NoResult
    /\ NoWrites

\* one call of buildWhereClause(filters); the runtime picks the map
\* iteration order
Compile ==
    \E it \in IterationOrders(filters) :
        /\ iter' = it
        /\ plan' = buildWhereClause(filters, it)
        /\ prevIter' = iter
        /\ prevPlan' = plan
        /\ UNCHANGED <<filters, queryVars, writeVars>>

NextFilter == Compile

SpecFilter == InitFilter /\ [][NextFilter]_vars

-----------------------------------------------------------------------------
(* Properties of the filter compiler, checked under SpecFilter.            *)

\* the number of "?" placeholders in a text
RECURSIVE Placeholders(_)
Placeholders(text) ==
    IF text = <<>> THEN 0
    ELSE (IF Head(text) = "?" THEN 1 ELSE 0) + Placeholders(Tail(text))

\* the number of placeholders of the predicates before the i-th
RECURSIVE PlaceholdersBefore(_, _)
PlaceholdersBefore(conds, i) ==
    IF i <= 1 THEN 0
    ELSE Placeholders(conds[i - 1].text) + PlaceholdersBefore(conds, i - 1)

Compiled == plan # NoPlan

\* C9: compiling the same filter map again, whatever order the map
\* iteration yields its keys in, gives the same clause text and the same
\* parameters in the same order, and the predicates of a clause stand in
\* ascending byte order of the raw keys they come from.
C9_CompileDeterministic ==
    /\ Compiled =>
          \A i, j \in 1..Len(plan.conds) :
              i < j => StringLess(plan.conds[i].key, plan.conds[j].key)
    /\ (Compiled /\ prevPlan # NoPlan) =>
          /\ plan.clause = prevPlan.clause
          /\ plan.values = prevPlan.values

\* two compilations of a two-key map whose iterations ran in different orders
C9_Witness ==
    /\ Compiled
    /\ prevPlan # NoPlan
    /\ Len(iter) = 2
    /\ iter # prevIter

\* the parameters the claim assigns to one filter entry
ParamsOfEntry(key, value) ==
    IF KeyOperator(key) \in {"IS NULL", "IS NOT NULL"} THEN <<>>
    ELSE IF KeyOperator(key) = "IN" /\ value.kind = "ints"
    THEN [i \in 1..Len(value.l) |-> IntV(value.l[i])]
    ELSE <<value>>

\* C10: the parameter list is as long as the clause has placeholders, and
\* the placeholders of each predicate, read left to right, are bound to the
\* parameters of its filter entry: one for a comparison or pattern
\* operator, the elements in sequence order for `in`, none for the null
\* predicates whatever the entry's value.
C10_ParamsMatchPlaceholders ==
    Compiled =>
        /\ Len(plan.values) = Placeholders(plan.clause)
        /\ \A i \in 1..Len(plan.conds) :
              LET c   == plan.conds[i]
                  off == PlaceholdersBefore(plan.conds, i)
              IN  SubSeq(plan.values, off + 1, off + Placeholders(c.text))
                      = ParamsOfEntry(c.key, filters[c.key])

\* a clause with a two-element `in` followed by a null predicate
C10_Witness ==
    /\ Compiled
    /\ Len(plan.conds) = 2
    /\ plan.conds[1].op = "IN" /\ Len(plan.conds[1].vals) = 2
    /\ plan.conds[2].op = "IS NULL"
    /\ filters[plan.conds[2].key] = BoolV(FALSE)
    /\ Len(plan.values) = 2

-----------------------------------------------------------------------------
(* The query operations: the rows of the table, the database's evaluation  *)
(* of a compiled WHERE clause, and the document database's evaluation of a *)
(* filter document.                                                        *)

F_id == <<"i", "d">>

Row(i, nm, ag) == [id |-> i, name |-> nm, age |-> ag]

\* the value of a column of a row
Column(row, field) ==
    IF field = F_name THEN row.name
    ELSE IF field = F_age THEN row.age
    ELSE IntV(row.id)

\* UPPER() of one character and of a text
Upper(c) == IF c = "a" THEN "A" ELSE IF c = "b" THEN "B" ELSE c

UpperText(cs) == [i \in 1..Len(cs) |-> Upper(cs[i])]

\* s LIKE p: "%" stands for any run of characters, "_" for any one
RECURSIVE LikeMatch(_, _)
LikeMatch(s, p) ==
    IF p = <<>> THEN s = <<>>
    ELSE IF Head(p) = "%"
    THEN LikeMatch(s, Tail(p)) \/ (s # <<>> /\ LikeMatch(Tail(s), p))
    ELSE /\ s # <<>>
         /\ (Head(p) = "_" \/ Head(p) = Head(s))
         /\ LikeMatch(Tail(s), Tail(p))

\* the parameters bound to the placeholders of the i-th predicate of a
\* compiled clause: placeholders are positional
BoundParams(w, i) ==
    SubSeq(w.values,
           PlaceholdersBefore(w.conds, i) + 1,
           PlaceholdersBefore(w.conds, i) + Placeholders(w.conds[i].text))

\* whether the database finds predicate c true of a row, params being the
\* values bound to its placeholders; a comparison with NULL on either side
\* is not true
SqlHolds(c, params, row) ==
    LET col == Column(row, c.field) IN
    IF c.op = "IS NULL" THEN col = NilV
    ELSE IF c.op = "IS NOT NULL" THEN col # NilV
    ELSE IF col = NilV THEN FALSE
    ELSE IF c.op = "IN"
    THEN \E i \in 1..Len(params) : params[i] # NilV /\ col = params[i]
    ELSE IF params[1] = NilV THEN FALSE
    ELSE IF c.op = "=" THEN col = params[1]
    ELSE IF c.op = "!=" THEN col # params[1]
    ELSE IF c.op = ">" THEN col.n > params[1].n
    ELSE IF c.op = ">=" THEN col.n >= params[1].n
    ELSE IF c.op = "<" THEN col.n < params[1].n
    ELSE IF c.op = "<=" THEN col.n <= params[1].n
    ELSE IF c.op = "LIKE" THEN LikeMatch(col.s, params[1].s)
    ELSE IF c.op = "NOT LIKE" THEN ~LikeMatch(col.s, params[1].s)
    ELSE LikeMatch(UpperText(col.s), UpperText(params[1].s))

\* rows selected when the predicates are taken as alternatives
SqlSelectAny(tbl, w) ==
    SelectSeq(tbl, LAMBDA row :
        \E i \in 1..Len(w.conds) :
            SqlHolds(w.conds[i], BoundParams(w, i), row))

\* the rows of tbl the WHERE clause w selects, in storage order
SqlSelect(tbl, w) ==
    SelectSeq(tbl, LAMBDA row :
        \A i \in 1..Len(w.conds) :
            SqlHolds(w.conds[i], BoundParams(w, i), row))

\* the filter document built from a filter map: one element per entry, the
\* key taken as it is, in the order the map iteration yields the keys
mapToBsonD(m, it) == [i \in 1..Len(it) |-> [Key |-> it[i], Value |-> m[it[i]]]]

F_bson_id == <<"_", "i", "d">>

\* a document none of whose fields is found
DocFieldNone(doc, key) == NilV

\* the value of a field of a document; a field the document does not have
\* reads as null in an equality match
DocField(doc, key) ==
    IF key = F_name THEN doc.name
    ELSE IF key = F_age THEN doc.age
    ELSE IF key = F_bson_id THEN IntV(doc.id)
    ELSE NilV

\* the documents of coll the filter document selects: every element is an
\* equality match of the field named by its key
MongoSelect(coll, filter) ==
    SelectSeq(coll, LAMBDA doc :
        \A i \in 1..Len(filter) :
            DocField(doc, filter[i].Key) = filter[i].Value)

\* decoding a stored row into the entity: a NULL column leaves the field at
\* its zero value
parseRow(row) ==
    [id   |-> row.id,
     name |-> IF row.name = NilV THEN StrV(<<>>) ELSE row.name,
     age  |-> IF row.age = NilV THEN IntV(0) ELSE row.age]

ParseRows(rows) == [i \in 1..Len(rows) |-> parseRow(rows[i])]

DefaultLimit == 10

Initialize(o) ==
    [Page    |-> IF o.Page < 1 THEN 1 ELSE o.Page,
     Limit   |-> IF o.Limit < 0 THEN DefaultLimit ELSE o.Limit,
     SortBy  |-> IF o.SortBy = "" THEN "createdAt" ELSE o.SortBy,
     OrderBy |-> IF o.OrderBy = "" THEN "ASC" ELSE o.OrderBy]

Skip(page, limit) == (page - 1) * limit

Min(a, b) == IF a < b THEN a ELSE b

\* LIMIT limit OFFSET skip over the selected rows; no paging when Limit is 0
PageOf(rows, opts) ==
    IF opts.Limit > 0
    THEN SubSeq(rows, Skip(opts.Page, opts.Limit) + 1,
                Min(Len(rows), Skip(opts.Page, opts.Limit) + opts.Limit))
    ELSE rows

\* the orders in which the database may return the selected rows of a
\* query that carries no ordering
ScanOrders(rows) ==
    {[i \in 1..Len(rows) |-> rows[p[i]]] : p \in Permutations(1..Len(rows))}

\* where a document stands under a sort on the field sortBy: the rows of
\* a table were created in the order of their ids; null sorts below every
\* number; a field the documents do not have is null in all of them
SortRank(row, sortBy) ==
    IF sortBy = "createdAt" THEN row.id
    ELSE IF sortBy = "age" THEN (IF row.age = NilV THEN -1 ELSE row.age.n)
    ELSE -1

\* the rows stand in the order of a sort {sortBy: 1}, or {sortBy: -1}
\* when orderBy is "DESC"
Sorted(rows, sortBy, orderBy) ==
    \A i, j \in 1..Len(rows) :
        i < j => IF orderBy = "DESC"
                 THEN SortRank(rows[i], sortBy) >= SortRank(rows[j], sortBy)
                 ELSE SortRank(rows[i], sortBy) <= SortRank(rows[j], sortBy)

\* the orders in which Find returns the selected documents: SetSort is
\* called when SortBy is not empty
FindOrders(rows, opts) ==
    IF opts.SortBy # ""
    THEN {s \in ScanOrders(rows) : Sorted(s, opts.SortBy, opts.OrderBy)}
    ELSE ScanOrders(rows)

IsSQL == driver # "mongodb"

Result(op, rows, count, err, opts) ==
    [op |-> op, rows |-> rows, count |-> count, err |-> err,
     before |-> table, opts |-> opts, nilFilter |-> FALSE]

-----------------------------------------------------------------------------
(* Inputs of the query operations: the stored rows, the filter map, the    *)
(* paging options.  Names and patterns are lower-case except the pattern   *)
(* of `ilike`, so that no comparison depends on whether LIKE folds case in *)
(* the dialect at hand.                                                    *)

\* four rows with ages 20, 25, 30, 35
T_people ==
    <<Row(1, StrV(<<"a", "b">>), IntV(20)),
      Row(2, StrV(<<"b">>),      IntV(25)),
      Row(3, StrV(<<"a">>),      IntV(30)),
      Row(4, StrV(<<"b", "a">>), IntV(35))>>

\* a row without NULL, a row with a NULL name, a row with a NULL age
T_nullable ==
    <<Row(1, StrV(<<"a">>), IntV(25)),
      Row(2, NilV,          IntV(30)),
      Row(3, StrV(<<"b">>), NilV)>>

Tables == {T_people, T_nullable}

QueryDrivers == {"sqlite", "mongodb"}

QueryKeys == FilterKeys \ {K_age_foo, K_age_x_gt}

P_A == <<"A", "%">>

QueryValuesOf(key) ==
    IF KeyOperator(key) = "IN" THEN {IntsV(<<25, 35>>)}
    ELSE IF KeyOperator(key) = "IS NULL" THEN {BoolV(TRUE), BoolV(FALSE)}
    ELSE IF KeyOperator(key) = "IS NOT NULL" THEN {BoolV(TRUE)}
    ELSE IF KeyOperator(key) = "ILIKE_COMPAT" THEN {StrV(P_A)}
    ELSE IF KeyOperator(key) \in {"LIKE", "NOT LIKE"} THEN {StrV(P_a)}
    ELSE IF key = K_name THEN {StrV(<<"a">>), NilV}
    ELSE {IntV(30)}

QueryMaps ==
    UNION {{f \in [K -> UNION {QueryValuesOf(k) : k \in K}] :
                \A k \in K : f[k] \in QueryValuesOf(k)} :
           K \in {K \in SUBSET QueryKeys : Cardinality(K) <= MaxKeys}}

FindOptions(pg, lim, sortBy, orderBy) ==
    [Page |-> pg, Limit |-> lim, SortBy |-> sortBy, OrderBy |-> orderBy]

OptionInputs ==
    {FindOptions(0, 0, "", ""), FindOptions(0, 1, "", ""),
     FindOptions(2, 1, "", ""), FindOptions(2, -1, "", ""),
     FindOptions(0, 0, "age", "ASC"), FindOptions(0, 0, "age", "DESC"),
     FindOptions(2, 1, "age", "DESC")}

InitQuery ==
    /\ filters \in QueryMaps
    /\ iter = <<>>
    /\ plan = NoPlan
    /\ prevIter = <<>>
    /\ prevPlan = NoPlan
    /\ driver \in QueryDrivers
    /\ table \in Tables
    /\ qres = NoResult
    /\ NoWrites

\* SQLStore.FindAll(filters, o)
\* a filter map with no entry is either nil or an empty map; a map with an
\* entry is not nil
NilOrNot(f) == IF DOMAIN f = {} THEN BOOLEAN ELSE {FALSE}

SQLStore_FindAll ==
    /\ IsSQL
    /\ \E selected \in {SqlSelect(table, buildWhereClause(filters, it)) :
                           it \in IterationOrders(filters)} :
       \E o \in OptionInputs, dbOk \in BOOLEAN :
       \E opts \in {Initialize(o)} :
          IF dbOk
          THEN \E scan \in ScanOrders(selected) :
                  qres' = Result("FindAll", ParseRows(PageOf(scan, opts)),
                                 -1, "", opts)
          ELSE qres' = Result("FindAll", <<>>, -1, "error querying", opts)
    /\ UNCHANGED <<filterVars, driver, table, writeVars>>

\* SQLStore.Count(filters)
SQLStore_Count ==
    /\ IsSQL
    /\ \E selected \in {SqlSelect(table, buildWhereClause(filters, it)) :
                           it \in IterationOrders(filters)} :
       \E dbOk \in BOOLEAN :
          qres' = IF dbOk
                  THEN Result("Count", <<>>, Len(selected), "", NoResult.opts)
                  ELSE Result("Count", <<>>, -1, "scan error", NoResult.opts)
    /\ UNCHANGED <<filterVars, driver, table, writeVars>>

\* SQLStore.DeleteMany(filters)
SQLStore_DeleteMany ==
    /\ IsSQL
    /\ \E selected \in {SqlSelect(table, buildWhereClause(filters, it)) :
                           it \in IterationOrders(filters)} :
       \E dbOk \in BOOLEAN, isNil \in NilOrNot(filters) :
          IF dbOk
          THEN /\ table' = SelectSeq(table, LAMBDA row :
                               \A i \in 1..Len(selected) : selected[i] # row)
               /\ qres' = [Result("DeleteMany", <<>>, Len(selected), "",
                                  NoResult.opts) EXCEPT !.nilFilter = isNil]
          ELSE /\ table' = table
               /\ qres' = [Result("DeleteMany", <<>>, -1, "exec error",
                                  NoResult.opts) EXCEPT !.nilFilter = isNil]
    /\ UNCHANGED <<filterVars, driver, writeVars>>

\* mongoStore.FindAll(filters, o)
mongoStore_FindAll ==
    /\ ~IsSQL
    /\ \E selected \in {MongoSelect(table, mapToBsonD(filters, it)) :
                           it \in IterationOrders(filters)} :
       \E o \in OptionInputs, dbOk \in BOOLEAN :
       \E opts \in {Initialize(o)} :
          IF dbOk
          THEN \E scan \in FindOrders(selected, opts) :
                  qres' = Result("FindAll", ParseRows(PageOf(scan, opts)),
                                 -1, "", opts)
          ELSE qres' = Result("FindAll", <<>>, -1,
                              "erro ao buscar documentos", opts)
    /\ UNCHANGED <<filterVars, driver, table, writeVars>>

\* mongoStore.Count(filters)
mongoStore_Count ==
    /\ ~IsSQL
    /\ \E selected \in {MongoSelect(table, mapToBsonD(filters, it)) :
                           it \in IterationOrders(filters)} :
       \E dbOk \in BOOLEAN :
          qres' = IF dbOk
                  THEN Result("Count", <<>>, Len(selected), "", NoResult.opts)
                  ELSE Result("Count", <<>>, -1,
                              "erro ao quantificar documentos", NoResult.opts)
    /\ UNCHANGED <<filterVars, driver, table, writeVars>>

\* mongoStore.DeleteMany(filters); the filter map of the model is never nil
mongoStore_DeleteMany ==
    /\ ~IsSQL
    /\ \E selected \in {MongoSelect(table, mapToBsonD(filters, it)) :
                           it \in IterationOrders(filters)} :
       \E dbOk \in BOOLEAN, isNil \in NilOrNot(filters) :
          IF isNil
          THEN /\ table' = table
               /\ qres' = [Result("DeleteMany", <<>>, -1,
                                  "filtro não pode ser nulo", NoResult.opts)
                              EXCEPT !.nilFilter = TRUE]
          ELSE IF dbOk
          THEN /\ table' = SelectSeq(table, LAMBDA doc :
                               \A i \in 1..Len(selected) : selected[i] # doc)
               /\ qres' = Result("DeleteMany", <<>>, Len(selected), "",
                                 NoResult.opts)
          ELSE /\ table' = table
               /\ qres' = Result("DeleteMany", <<>>, -1,
                                 "erro ao deletar documentos", NoResult.opts)
    /\ UNCHANGED <<filterVars, driver, writeVars>>

NextQuery ==
    \/ SQLStore_FindAll
    \/ SQLStore_Count
    \/ SQLStore_DeleteMany
    \/ mongoStore_FindAll
    \/ mongoStore_Count
    \/ mongoStore_DeleteMany

SpecQuery == InitQuery /\ [][NextQuery]_vars

-----------------------------------------------------------------------------
(* Properties of the query operations, checked under SpecQuery.            *)

IdsOf(rows) == {rows[i].id : i \in 1..Len(rows)}

Answered == qres.op # "none" /\ qres.err = ""

\* the part of a raw key after the first "__", empty when it has none
SuffixOf(key) == IF ContainsSep(key) THEN SplitSep(key)[2] ELSE <<>>

Lower(c) == IF c = "A" THEN "a" ELSE IF c = "B" THEN "b" ELSE c

LowerText(cs) == [i \in 1..Len(cs) |-> Lower(cs[i])]

\* what a filter entry asks of a row, read off the raw key: the field is
\* the part before the suffix, the suffix names the comparison; the null
\* predicates look at the column only, and no other comparison is
\* satisfied when the column or the operand is NULL
Satisfies(row, key, value) ==
    LET col == Column(row, KeyField(key))
        sfx == SuffixOf(key)
    IN  IF sfx = S_is_null THEN col = NilV
        ELSE IF sfx = S_is_not_null THEN col # NilV
        ELSE IF col = NilV \/ value = NilV THEN FALSE
        ELSE IF sfx = S_in
        THEN \E i \in 1..Len(value.l) : col = IntV(value.l[i])
        ELSE IF sfx = <<>> THEN col = value
        ELSE IF sfx = S_not THEN col # value
        ELSE IF sfx = S_gt THEN col.n > value.n
        ELSE IF sfx = S_gte THEN col.n >= value.n
        ELSE IF sfx = S_lt THEN col.n < value.n
        ELSE IF sfx = S_lte THEN col.n <= value.n
        ELSE IF sfx = S_like THEN LikeMatch(col.s, value.s)
        ELSE IF sfx = S_not_like THEN ~LikeMatch(col.s, value.s)
        ELSE LikeMatch(LowerText(col.s), LowerText(value.s))

\* the ids of the rows of tbl that satisfy every entry of the map f
Matching(tbl, f) ==
    {tbl[i].id : i \in {j \in 1..Len(tbl) :
                          \A k \in DOMAIN f : Satisfies(tbl[j], k, f[k])}}

Max(a, b) == IF a > b THEN a ELSE b

\* C8: a FindAll of the SQL store that returns without error returns each
\* row that satisfies every entry of the filter map (the entries combine
\* with AND, each suffix with its comparison meaning) once and no other
\* row: all of them when the options set no limit, the requested page of
\* them otherwise; Count returns the number of those rows.
C8_FindAllReturnsMatchingRows ==
    (IsSQL /\ Answered) =>
        LET want == Matching(qres.before, filters) IN
        /\ qres.op = "FindAll" =>
              /\ Cardinality(IdsOf(qres.rows)) = Len(qres.rows)
              /\ IdsOf(qres.rows) \subseteq want
              /\ qres.opts.Limit = 0 => IdsOf(qres.rows) = want
              /\ qres.opts.Limit > 0 =>
                    Len(qres.rows) =
                        Min(qres.opts.Limit,
                            Max(0, Cardinality(want)
                                     - Skip(qres.opts.Page, qres.opts.Limit)))
        /\ qres.op = "Count" => qres.count = Cardinality(want)

\* an unpaged FindAll over the ages 20, 25, 30, 35 with two entries,
\* age__lte and name__like, that returned the two rows satisfying both
C8_Witness ==
    /\ IsSQL /\ Answered
    /\ qres.op = "FindAll" /\ qres.opts.Limit = 0
    /\ qres.before = T_people
    /\ DOMAIN filters = {K_age_lte, K_name_like}
    /\ IdsOf(qres.rows) = {1, 3}

\* the rows the SQL store selects from tbl under the filter map f
SqlSelection(tbl, f) ==
    SqlSelect(tbl, buildWhereClause(f, CHOOSE it \in IterationOrders(f) : TRUE))

\* the latest operation, run by the document store, selected the entities
\* the SQL store selects from the same content under the same filter map
MongoAgreesWithSQL ==
    LET sql == SqlSelection(qres.before, filters) IN
    /\ qres.op = "FindAll" =>
          /\ IdsOf(qres.rows) \subseteq IdsOf(sql)
          /\ qres.opts.Limit = 0 => IdsOf(qres.rows) = IdsOf(sql)
    /\ qres.op = "Count" => qres.count = Len(sql)
    /\ qres.op = "DeleteMany" =>
          /\ qres.count = Len(sql)
          /\ IdsOf(table) = IdsOf(qres.before) \ IdsOf(sql)

\* no key of the filter map carries a "__" suffix and no value is nil
SuffixFree ==
    \A k \in DOMAIN filters : ~ContainsSep(k) /\ filters[k] # NilV

-----------------------------------------------------------------------------
(* The write statements the SQL store issues, as the database runs them    *)
(* over the rows of the table.  The table is kept in id order.  A          *)
(* statement carries the entity's name and age; the timestamp columns are  *)
(* not part of the rows of the model.  uniq tells whether the schema has a *)
(* unique index on name beside the primary key on id.                      *)

Reply(ok, rows, n) == [ok |-> ok, rows |-> rows, affected |-> n]

MaxId(rows) ==
    IF rows = <<>> THEN 0
    ELSE CHOOSE m \in IdsOf(rows) : \A i \in IdsOf(rows) : m >= i

\* the id an auto-increment primary key gives to the next inserted row
NextAutoId(rows) == MaxId(rows) + 1

NamesOf(rows) == {rows[i].name : i \in 1..Len(rows)}

\* the rows with one more, in id order
PutRow(rows, row) ==
    SelectSeq(rows, LAMBDA r : r.id < row.id) \o <<row>>
        \o SelectSeq(rows, LAMBDA r : r.id > row.id)

\* the primary key and the unique index hold of the rows
ConstraintsHold(rows, uniq) ==
    /\ Cardinality(IdsOf(rows)) = Len(rows)
    /\ uniq => Cardinality(NamesOf(rows)) = Len(rows)

\* INSERT INTO t (name, age) VALUES (?, ?): the primary key is left to the
\* database
InsertStatement(rows, e, uniq) ==
    LET row == [e EXCEPT !.id = NextAutoId(rows)] IN
    IF uniq /\ e.name \in NamesOf(rows) THEN Reply(FALSE, rows, 0)
    ELSE Reply(TRUE, PutRow(rows, row), 1)

\* a row after SET key = ? for every key of fields
SetFields(row, fields) ==
    [row EXCEPT !.name = IF F_name \in DOMAIN fields THEN fields[F_name] ELSE @,
                !.age  = IF F_age \in DOMAIN fields THEN fields[F_age] ELSE @]

\* UPDATE t SET ... WHERE w
UpdateStatement(rows, fields, w, uniq) ==
    LET hit == IdsOf(SqlSelect(rows, w))
        new == [i \in 1..Len(rows) |->
                   IF rows[i].id \in hit THEN SetFields(rows[i], fields)
                   ELSE rows[i]]
    IN  IF ConstraintsHold(new, uniq) THEN Reply(TRUE, new, Cardinality(hit))
        ELSE Reply(FALSE, rows, 0)

\* INSERT OR REPLACE INTO t (id, name, age) VALUES (?, ?, ?): every row
\* that collides with the new one on the primary key or on a unique index
\* is deleted, then the new row is inserted
ReplaceStatement(rows, e, uniq) ==
    Reply(TRUE,
          PutRow(SelectSeq(rows, LAMBDA r :
                     r.id # e.id /\ ~(uniq /\ r.name = e.name)), e),
          1)

\* the value of the column named c
Col(row, c) ==
    IF c = "name" THEN row.name
    ELSE IF c = "age" THEN row.age
    ELSE IF c = "id" THEN IntV(row.id)
    ELSE NilV

Columns == {"id", "name", "age"}

\* whether row r has the values of row e in every column of cs
SameOn(r, e, cs) == \A c \in cs : Col(r, c) = Col(e, c)

\* row r after taking from e every column of cs
TakeFields(r, e, cs) ==
    [id   |-> IF "id" \in cs THEN e.id ELSE r.id,
     name |-> IF "name" \in cs THEN e.name ELSE r.name,
     age  |-> IF "age" \in cs THEN e.age ELSE r.age]

\* the rows after the rows with ids in hit took from e the columns of cs
UpdateHit(rows, hit, e, cs) ==
    [i \in 1..Len(rows) |->
        IF rows[i].id \in hit THEN TakeFields(rows[i], e, cs) ELSE rows[i]]

\* rows with distinct ids, put in id order
RECURSIVE ById(_)
ById(rows) ==
    IF rows = <<>> THEN <<>> ELSE PutRow(ById(Tail(rows)), Head(rows))

\* insert the proposed row when no row is hit, else update the hit rows in
\* the columns of cs; either fails on a constraint violation
InsertOrUpdate(rows, proposed, hit, cs, uniq) ==
    IF hit = {}
    THEN IF ConstraintsHold(Append(rows, proposed), uniq)
         THEN Reply(TRUE, PutRow(rows, proposed), 1)
         ELSE Reply(FALSE, rows, 0)
    ELSE LET new == UpdateHit(rows, hit, proposed, cs) IN
         IF ConstraintsHold(new, uniq)
         THEN Reply(TRUE, ById(new), Cardinality(hit))
         ELSE Reply(FALSE, rows, 0)

\* the ids of the rows that have the proposed row's values in the columns cs
HitOn(rows, proposed, cs) ==
    {rows[i].id : i \in {j \in 1..Len(rows) : SameOn(rows[j], proposed, cs)}}

\* INSERT ... ON DUPLICATE KEY UPDATE c = VALUES(c), ...: the row that
\* collides with the proposed one on the primary key, else on the unique
\* index, is updated; the conflict columns of the caller play no part in
\* finding it.  An id of 0 asks for the next auto-increment id.
DuplicateKeyStatement(rows, e, skipId, cs, uniq) ==
    LET proposed == [e EXCEPT !.id = IF skipId \/ e.id = 0
                                     THEN NextAutoId(rows) ELSE e.id]
        hit == IF HitOn(rows, proposed, {"id"}) # {}
               THEN HitOn(rows, proposed, {"id"})
               ELSE IF uniq THEN HitOn(rows, proposed, {"name"}) ELSE {}
        r   == InsertOrUpdate(rows, proposed, hit, cs, uniq)
    IN  IF hit = {} \/ ~r.ok THEN r
        ELSE [r EXCEPT !.affected = IF r.rows = rows THEN 0 ELSE 2]

\* INSERT ... ON CONFLICT (target) DO UPDATE SET ...: the target columns
\* must carry a unique index; the row equal to the proposed one on them is
\* updated
OnConflictStatement(rows, e, skipId, target, cs, uniq) ==
    LET proposed == [e EXCEPT !.id = IF skipId THEN NextAutoId(rows) ELSE e.id]
    IN  IF target = {"id"} \/ (uniq /\ target = {"name"})
        THEN InsertOrUpdate(rows, proposed, HitOn(rows, proposed, target),
                            cs, uniq)
        ELSE Reply(FALSE, rows, 0)

\* MERGE INTO t USING dual ON (t.c = ? AND ...) WHEN MATCHED THEN UPDATE
\* SET ... WHEN NOT MATCHED THEN INSERT ...: every row equal to the
\* proposed one on the ON columns is updated
MergeStatement(rows, e, skipId, target, cs, uniq) ==
    LET proposed == [e EXCEPT !.id = IF skipId THEN NextAutoId(rows) ELSE e.id]
    IN  InsertOrUpdate(rows, proposed, HitOn(rows, proposed, target), cs, uniq)

-----------------------------------------------------------------------------
(* Upsert of one entity.                                                   *)

PrimaryKey == "id"

Filter(fieldKey, bsonKey) == [UpsertFieldKey |-> fieldKey, UpsertBsonKey |-> bsonKey]

\* the conflict columns the SQL store takes from the caller's filters
ConflictFields(f) ==
    LET g == IF Len(f) = 0 THEN <<Filter(PrimaryKey, "ID")>> ELSE f IN
    {IF g[i].UpsertFieldKey = "" THEN PrimaryKey ELSE g[i].UpsertFieldKey :
        i \in 1..Len(g)}

\* the columns of the statement's update list: every column of the
\* statement but the conflict columns
UpdateColumns(f, skipId) ==
    (Columns \ (IF skipId THEN {PrimaryKey} ELSE {})) \ ConflictFields(f)

SupportsUpsert(drv) ==
    drv \in {"mysql", "mariadb", "sqlite", "postgres", "oracle"}

\* the statement the SQL store builds for entity e under driver drv, run
\* over rows; skipId tells that the primary key is left out of the column
\* list, plainInsert that the SQLite branch takes its plain INSERT
UpsertStatement(drv, rows, e, f, skipId, plainInsert, uniq) ==
    IF drv \in {"mysql", "mariadb"}
    THEN DuplicateKeyStatement(rows, e, skipId, UpdateColumns(f, skipId), uniq)
    ELSE IF drv = "sqlite"
    THEN IF plainInsert THEN InsertStatement(rows, e, uniq)
         ELSE ReplaceStatement(rows, e, uniq)
    ELSE IF drv = "postgres"
    THEN OnConflictStatement(rows, e, skipId, ConflictFields(f),
                             UpdateColumns(f, skipId), uniq)
    ELSE MergeStatement(rows, e, skipId, ConflictFields(f),
                        UpdateColumns(f, skipId), uniq)

\* reflect's FieldByName over the entity: ok is FALSE for a name that is
\* not a field of the struct
getFieldValue(key, e) ==
    IF key = "ID" THEN [ok |-> TRUE, value |-> IntV(e.id)]
    ELSE IF key = "Name" THEN [ok |-> TRUE, value |-> e.name]
    ELSE IF key = "Age" THEN [ok |-> TRUE, value |-> e.age]
    ELSE [ok |-> FALSE, value |-> NilV]

\* the first filter whose field name is not a field of the entity, 0 if none
FirstInvalid(e, f) ==
    IF \A i \in 1..Len(f) : getFieldValue(f[i].UpsertFieldKey, e).ok THEN 0
    ELSE CHOOSE i \in 1..Len(f) :
            /\ ~getFieldValue(f[i].UpsertFieldKey, e).ok
            /\ \A j \in 1..(i - 1) : getFieldValue(f[j].UpsertFieldKey, e).ok

convertStoreUpsertFilterToBsonD(e, f) ==
    [i \in 1..Len(f) |->
        [Key |-> f[i].UpsertBsonKey,
         Value |-> getFieldValue(f[i].UpsertFieldKey, e).value]]

\* the value of the document field with bson key k
BsonField(doc, k) ==
    IF k = "_id" THEN IntV(doc.id)
    ELSE IF k = "name" THEN doc.name
    ELSE IF k = "age" THEN doc.age
    ELSE NilV

\* UpdateOne(filter, {$set: e without _id, $setOnInsert: {_id: e.id}})
\* with upsert: the first document matching the filter is updated; when
\* none matches a document is inserted, which fails on a taken _id.
\* affected is the UpsertedCount.
UpdateOneUpsert(coll, filter, e) ==
    LET hit == {j \in 1..Len(coll) :
                   \A i \in 1..Len(filter) :
                       BsonField(coll[j], filter[i].Key) = filter[i].Value}
    IN  IF hit # {}
        THEN LET j == CHOOSE m \in hit : \A n \in hit : m <= n IN
             Reply(TRUE, [coll EXCEPT ![j] = TakeFields(@, e, {"name", "age"})], 0)
        ELSE IF e.id \in IdsOf(coll) THEN Reply(FALSE, coll, 0)
        ELSE Reply(TRUE, PutRow(coll, e), 1)

MaxUpserts == 2

N_a == StrV(<<"a">>)
N_b == StrV(<<"b">>)

\* a table with two rows
T_two == <<Row(1, N_a, IntV(25)), Row(2, N_b, IntV(30))>>

WriteTables == {<<>>, T_two}

WriteDrivers == {"sqlite", "mysql", "postgres", "oracle", "unknown", "mongodb"}

\* the entities handed to Upsert; an id of 0 is the zero value of ID
UpsertEntities ==
    {Row(1, N_a, IntV(40)), Row(2, N_a, IntV(35)), Row(1, N_b, IntV(30)),
     Row(0, N_b, IntV(40))}

\* the conflict filters a caller hands to the SQL store and to the
\* document store: none, or the name
SqlFilters == {<<>>, <<Filter("name", "Name")>>}

MongoFilters == {<<>>, <<Filter("Name", "name")>>}

NoCallRunning == call.pc \in {"idle", "returned", "panicked"}

\* a call that ran no transaction and has returned
Returned(op, batch, f, err, count) ==
    [NoCall EXCEPT !.op = op, !.pc = "returned", !.batch = batch, !.f = f,
                   !.before = table, !.err = err, !.count = count]

InitUpsert ==
    /\ filters = <<>>
    /\ iter = <<>>
    /\ plan = NoPlan
    /\ prevIter = <<>>
    /\ prevPlan = NoPlan
    /\ qres = NoResult
    /\ driver \in WriteDrivers
    /\ uniqueName \in (IF driver = "mongodb" THEN {FALSE} ELSE BOOLEAN)
    /\ storeUpsertFilter = NilFilter
    /\ table \in WriteTables
    /\ callsLeft = MaxUpserts
    /\ call = NoCall
    /\ tx = NoTx
    /\ prevCall = NoCall

\* the UpdateResult of SQLStore.Upsert: the rows affected are reported as
\* the upserted count, the other counts are left zero
SqlUpdateResult(affected) ==
    [MatchedCount |-> 0, ModifiedCount |-> 0, UpsertedCount |-> affected]

\* the MatchedCount of an UpdateOne with upsert that replied r: 1 unless
\* it failed or inserted
MatchedCount(r) == IF r.ok /\ r.affected = 0 THEN 1 ELSE 0

\* the ModifiedCount it can report: 1 when the matched document changed;
\* a document set to the values it has counts as modified only if its
\* update timestamp moved
ModifiedCounts(r, coll) ==
    IF MatchedCount(r) = 0 THEN {0}
    ELSE IF r.rows # coll THEN {1}
    ELSE {0, 1}

\* SQLStore.Upsert(e, f): one statement on the store's connection
SQLStore_Upsert ==
    /\ IsSQL /\ NoCallRunning /\ callsLeft > 0
    /\ \E e \in UpsertEntities, f \in SqlFilters, dbOk \in BOOLEAN :
          IF ~SupportsUpsert(driver)
          THEN /\ call' = Returned("Upsert", <<e>>, f,
                                   "unsupported database driver to execute Upsert", 0)
               /\ table' = table
          ELSE \E r \in {IF dbOk
                         THEN UpsertStatement(driver, table, e, f, FALSE, FALSE,
                                              uniqueName)
                         ELSE Reply(FALSE, table, 0)} :
               \E u \in {SqlUpdateResult(r.affected)} :
                  /\ call' = [Returned("Upsert", <<e>>, f,
                                       IF r.ok THEN "" ELSE "exec error",
                                       u.UpsertedCount)
                                 EXCEPT !.matched = u.MatchedCount,
                                        !.modified = u.ModifiedCount,
                                        !.entity = e]
                  /\ table' = r.rows
    /\ prevCall' = call
    /\ callsLeft' = callsLeft - 1
    /\ UNCHANGED <<filterVars, driver, qres, uniqueName, storeUpsertFilter, tx>>

\* mongoStore.Upsert(e, f)
mongoStore_Upsert ==
    /\ ~IsSQL /\ NoCallRunning /\ callsLeft > 0
    /\ \E e \in UpsertEntities, f \in MongoFilters, dbOk \in BOOLEAN :
       \E g \in {IF Len(f) = 0 THEN <<Filter("_id", "ID")>> ELSE f} :
          IF FirstInvalid(e, g) # 0
          THEN /\ call' = Returned("Upsert", <<e>>, f,
                                   "invalid upsert field name", 0)
               /\ table' = table
          ELSE \E r \in {IF dbOk
                         THEN UpdateOneUpsert(table,
                                  convertStoreUpsertFilterToBsonD(e, g), e)
                         ELSE Reply(FALSE, table, 0)} :
               \E modified \in ModifiedCounts(r, table) :
                  /\ call' = [Returned("Upsert", <<e>>, f,
                                       IF r.ok THEN ""
                                       ELSE "erro ao atualizar documento",
                                       r.affected)
                                 EXCEPT !.matched = MatchedCount(r),
                                        !.modified = modified,
                                        !.entity = e]
                  /\ table' = r.rows
    /\ prevCall' = call
    /\ callsLeft' = callsLeft - 1
    /\ UNCHANGED <<filterVars, driver, qres, uniqueName, storeUpsertFilter, tx>>

NextUpsert ==
    \/ SQLStore_Upsert
    \/ mongoStore_Upsert

SpecUpsert == InitUpsert /\ [][NextUpsert]_vars

-----------------------------------------------------------------------------
(* Properties of Upsert.                                                   *)

\* the column a conflict filter's field key stands for
ColumnOfKey(k) ==
    IF k \in {"name", "Name"} THEN "name"
    ELSE IF k \in {"age", "Age"} THEN "age"
    ELSE "id"

\* the conflict columns a caller means by its filters: the primary key when
\* it hands none
MeantColumns(f) ==
    IF Len(f) = 0 THEN {"id"}
    ELSE {ColumnOfKey(f[i].UpsertFieldKey) : i \in 1..Len(f)}

\* c is an Upsert that returned without an error
UpsertSucceeded(c) == c.op = "Upsert" /\ c.pc = "returned" /\ c.err = ""

\* the store is one that has an Upsert for its backend
UpsertBackend == ~IsSQL \/ SupportsUpsert(driver)

\* every row of rows with an id of ids holds the name and age of e
HoldPayload(rows, ids, e) ==
    \A i \in 1..Len(rows) :
        rows[i].id \in ids => rows[i].name = e.name /\ rows[i].age = e.age

\* C4: after two Upserts in sequence that both succeed, with the same
\* conflict filters and entities equal on the conflict columns but unequal
\* in payload, exactly one row has that value in the conflict columns and it
\* holds the name and age of the second entity.
C4_UpsertTwiceLeavesOneRow ==
    (/\ UpsertSucceeded(prevCall) /\ UpsertSucceeded(call)
     /\ prevCall.f = call.f
     /\ SameOn(prevCall.batch[1], call.batch[1], MeantColumns(call.f))
     /\ prevCall.batch[1] # call.batch[1])
    => LET e   == call.batch[1]
           ids == HitOn(table, e, MeantColumns(call.f))
       IN  Cardinality(ids) = 1 /\ HoldPayload(table, ids, e)

\* C5: after an Upsert that succeeds with the name as its conflict filter,
\* when a row had the entity's name before the call the table has as many
\* rows as before and a row that had the name holds the entity's name and
\* age; when none had it the table has one row more.
C5_UpsertDecidesByConflictSpec ==
    (/\ UpsertBackend /\ UpsertSucceeded(call)
     /\ MeantColumns(call.f) = {"name"})
    => LET e    == call.batch[1]
           same == HitOn(call.before, e, {"name"})
       IN  IF same # {}
           THEN /\ Len(table) = Len(call.before)
                /\ \E i \in same : \E j \in 1..Len(table) :
                      /\ table[j].id = i
                      /\ table[j].name = e.name /\ table[j].age = e.age
           ELSE Len(table) = Len(call.before) + 1

\* C6: an Upsert with no conflict filter on a store whose schema has the
\* primary key as its only constraint returns no error of its own making
\* (a failed statement apart); when it returns no error, a row was inserted
\* and the upserted count is 1 if no row had the entity's id, and else the
\* table has as many rows as before and the row with the id holds the
\* entity's name and age.
C6_EmptySpecUsesPrimaryKey ==
    (/\ UpsertBackend /\ ~uniqueName
     /\ call.op = "Upsert" /\ call.pc = "returned" /\ Len(call.f) = 0
     /\ call.err \notin {"exec error", "erro ao atualizar documento"})
    => LET e == call.batch[1] IN
       /\ call.err = ""
       /\ IF e.id \in IdsOf(call.before)
          THEN /\ Len(table) = Len(call.before)
               /\ HoldPayload(table, {e.id}, e)
          ELSE /\ Len(table) = Len(call.before) + 1
               /\ call.count = 1

-----------------------------------------------------------------------------
(* The transactions of the SQL store: WithTransaction and the batch        *)
(* operations.  A transaction works on its own copy of the rows; the       *)
(* table takes the copy when the transaction commits.                      *)

MaxBatch == 2

MaxWrites == 2

\* the stores of the tests are built over an auto-increment primary key
autoincrement == TRUE

SqlDrivers == WriteDrivers \ {"mongodb"}

\* the entities handed to SaveMany and UpsertMany and written by a unit of
\* work
BatchEntities == {Row(0, N_a, IntV(40)), Row(2, N_a, IntV(35)), Row(0, N_b, IntV(40))}

EntityBatches ==
    UNION {[1..n -> BatchEntities] : n \in 0..MaxBatch}

\* the entries handed to UpdateMany: two updates, one entry without a
\* filter, one without fields
UpdateEntries ==
    {[Filter |-> (K_age_gte :> IntV(30)), Fields |-> (F_name :> N_a)],
     [Filter |-> (K_name :> N_a), Fields |-> (F_age :> IntV(40))],
     [Filter |-> <<>>, Fields |-> (F_age :> IntV(40))],
     [Filter |-> (K_name :> N_a), Fields |-> <<>>]}

UpdateBatches ==
    UNION {[1..n -> UpdateEntries] : n \in 0..MaxBatch}

\* a Rollback that is not made
TxRollbackSkipped(t) == t

\* sql.Tx.Rollback: the transaction is over and its work is not applied,
\* whether or not Rollback reports an error
TxRollback(t) ==
    [t EXCEPT !.state = "rolledback", !.rollbacks = @ + 1]

\* a Commit that applies the work whether or not it succeeds
TxCommitAlways(t, ok) ==
    [t EXCEPT !.state = "committed", !.commits = @ + 1]

\* sql.Tx.Commit: the transaction is over; its work is applied when the
\* commit succeeds
TxCommit(t, ok) ==
    [t EXCEPT !.state = IF ok THEN "committed" ELSE "rolledback",
              !.commits = @ + 1]

\* a table that shows the work of every ended transaction
VisibleAlways(t, tbl) == t.work

\* the table once transaction t has ended
Visible(t, tbl) == IF t.state = "committed" THEN t.work ELSE tbl

InitTx ==
    /\ filters = <<>>
    /\ iter = <<>>
    /\ plan = NoPlan
    /\ prevIter = <<>>
    /\ prevPlan = NoPlan
    /\ qres = NoResult
    /\ driver \in SqlDrivers
    /\ uniqueName \in BOOLEAN
    /\ storeUpsertFilter = NilFilter
    /\ table \in WriteTables
    /\ callsLeft = 1
    /\ call = NoCall
    /\ tx = NoTx
    /\ prevCall = NoCall

\* db.BeginTx at the head of op
BeginTx(op, batch, f, ok, beginErr) ==
    /\ IsSQL /\ NoCallRunning /\ callsLeft > 0
    /\ IF ok
       THEN /\ call' = [NoCall EXCEPT !.op = op, !.pc = "running",
                                      !.batch = batch, !.f = f,
                                      !.before = table]
            /\ tx' = [NoTx EXCEPT !.state = "open", !.work = table]
       ELSE /\ call' = Returned(op, batch, f, beginErr, 0)
            /\ tx' = tx
    /\ callsLeft' = callsLeft - 1
    /\ UNCHANGED <<filterVars, queryVars, uniqueName, storeUpsertFilter, prevCall>>

\* the deferred function of op on a panic: Rollback, then the panic goes on
Recover ==
    /\ tx' = TxRollback(tx)
    /\ call' = [call EXCEPT !.pc = "panicked"]
    /\ table' = Visible(tx', table)

\* the body of a batch loop after the statement of entry pos + 1 replied r:
\* Rollback and return on a failure, Commit and return after the last entry
AfterStatement(r, n, commitOk, execErr, commitErr) ==
    IF ~r.ok
    THEN /\ tx' = TxRollback(tx)
         /\ call' = [call EXCEPT !.pc = "returned", !.err = execErr]
         /\ table' = Visible(tx', table)
    ELSE IF call.pos + 1 < Len(call.batch)
    THEN /\ tx' = [tx EXCEPT !.work = r.rows]
         /\ call' = [call EXCEPT !.pos = @ + 1, !.count = n]
         /\ table' = table
    ELSE /\ tx' = TxCommit([tx EXCEPT !.work = r.rows], commitOk)
         /\ call' = [call EXCEPT !.pc = "returned", !.pos = @ + 1,
                                 !.count = IF commitOk THEN n ELSE 0,
                                 !.err = IF commitOk THEN "" ELSE commitErr]
         /\ table' = Visible(tx', table)

Running(op) == call.op = op /\ call.pc = "running"

WithTransaction_Begin ==
    \E ok \in BOOLEAN : BeginTx("WithTransaction", <<>>, <<>>, ok, "begin error")

\* the unit of work runs a statement through the transaction handle
Fn_Exec ==
    /\ Running("WithTransaction") /\ call.pos < MaxWrites
    /\ \E e \in BatchEntities, dbOk \in BOOLEAN :
       \E r \in {IF dbOk THEN InsertStatement(tx.work, e, uniqueName)
                 ELSE Reply(FALSE, tx.work, 0)} :
          /\ tx' = [tx EXCEPT !.work = r.rows]
          /\ call' = [call EXCEPT !.pos = @ + 1]
    /\ UNCHANGED <<filterVars, queryVars, uniqueName, storeUpsertFilter, callsLeft, prevCall>>

\* the unit of work returns (result, err); WithTransaction rolls back on
\* an error and commits otherwise
WithTransaction_Return ==
    /\ Running("WithTransaction")
    /\ \E res \in {"success", "inserted"}, fnErr \in {"", "erro simulado"},
          ok \in BOOLEAN :
          IF fnErr # ""
          THEN /\ tx' = TxRollback(tx)
               /\ call' = [call EXCEPT
                              !.pc = "returned",
                              !.fn = [result |-> "", err |-> fnErr],
                              !.err = IF ok
                                      THEN "transaction error: " \o fnErr
                                      ELSE "transaction error: " \o fnErr
                                           \o ", rollback error: " \o "sql: connection is closed"]
               /\ table' = Visible(tx', table)
          ELSE /\ tx' = TxCommit(tx, ok)
               /\ call' = [call EXCEPT
                              !.pc = "returned",
                              !.fn = [result |-> res, err |-> ""],
                              !.result = IF ok THEN res ELSE "",
                              !.err = IF ok THEN "" ELSE "erro ao fazer commit"]
               /\ table' = Visible(tx', table)
    /\ UNCHANGED <<filterVars, driver, qres, uniqueName, storeUpsertFilter, callsLeft, prevCall>>

\* the unit of work panics
WithTransaction_Recover ==
    /\ Running("WithTransaction")
    /\ Recover
    /\ UNCHANGED <<filterVars, driver, qres, uniqueName, storeUpsertFilter, callsLeft, prevCall>>

SaveMany_Begin ==
    \E batch \in EntityBatches, ok \in BOOLEAN :
       IF Len(batch) = 0
       THEN /\ IsSQL /\ NoCallRunning /\ callsLeft > 0
            /\ call' = Returned("SaveMany", batch, <<>>, "", 0)
            /\ callsLeft' = callsLeft - 1
            /\ UNCHANGED <<filterVars, queryVars, uniqueName, storeUpsertFilter, tx, prevCall>>
       ELSE BeginTx("SaveMany", batch, <<>>, ok, "begin error")

\* one turn of the loop of SaveMany, with the Commit after the last entity
SaveMany_Step ==
    /\ Running("SaveMany")
    /\ \E outcome \in {"ok", "failed", "panic"}, commitOk \in BOOLEAN :
          IF outcome = "panic" THEN Recover
          ELSE \E r \in {IF outcome = "ok"
                         THEN InsertStatement(tx.work, call.batch[call.pos + 1],
                                              uniqueName)
                         ELSE Reply(FALSE, tx.work, 0)} :
                  AfterStatement(r, call.pos + 1, commitOk,
                                 "exec error", "commit error")
    /\ UNCHANGED <<filterVars, driver, qres, uniqueName, storeUpsertFilter, callsLeft, prevCall>>

UpdateMany_Begin ==
    \E batch \in UpdateBatches, ok \in BOOLEAN :
       IF Len(batch) = 0
       THEN /\ IsSQL /\ NoCallRunning /\ callsLeft > 0
            /\ call' = Returned("UpdateMany", batch, <<>>,
                                "nenhum update fornecido", 0)
            /\ callsLeft' = callsLeft - 1
            /\ UNCHANGED <<filterVars, queryVars, uniqueName, storeUpsertFilter, tx, prevCall>>
       ELSE BeginTx("UpdateMany", batch, <<>>, ok, "erro ao iniciar transação")

\* one turn of the loop of UpdateMany, with the Commit after the last entry
UpdateMany_Step ==
    /\ Running("UpdateMany")
    /\ \E fb \in {call.batch[call.pos + 1]} :
          IF Cardinality(DOMAIN fb.Filter) = 0
          THEN AfterStatement(Reply(FALSE, tx.work, 0), 0, FALSE,
                              "filtro é obrigatório para update", "")
          ELSE IF Cardinality(DOMAIN fb.Fields) = 0
          THEN AfterStatement(Reply(FALSE, tx.work, 0), 0, FALSE,
                              "campos para atualização são obrigatórios para update",
                              "")
          ELSE \E it \in IterationOrders(fb.Filter),
                  outcome \in {"ok", "failed", "panic"}, commitOk \in BOOLEAN :
                  IF outcome = "panic" THEN Recover
                  ELSE \E r \in {IF outcome = "ok"
                                 THEN UpdateStatement(tx.work, fb.Fields,
                                          buildWhereClause(fb.Filter, it),
                                          uniqueName)
                                 ELSE Reply(FALSE, tx.work, 0)} :
                          AfterStatement(r, call.count + r.affected, commitOk,
                                         "erro ao executar update",
                                         "erro ao fazer commit")
    /\ UNCHANGED <<filterVars, driver, qres, uniqueName, storeUpsertFilter, callsLeft, prevCall>>

UpsertMany_Begin ==
    \E batch \in EntityBatches, f \in SqlFilters, ok \in BOOLEAN :
       IF Len(batch) = 0
       THEN /\ IsSQL /\ NoCallRunning /\ callsLeft > 0
            /\ call' = Returned("UpsertMany", batch, f, "", 0)
            /\ callsLeft' = callsLeft - 1
            /\ UNCHANGED <<filterVars, queryVars, uniqueName, storeUpsertFilter, tx, prevCall>>
       ELSE BeginTx("UpsertMany", batch, f, ok, "begin error")

\* one turn of the loop of UpsertMany, with the Commit after the last
\* entity
UpsertMany_Step ==
    /\ Running("UpsertMany")
    /\ \E e \in {call.batch[call.pos + 1]} :
       \E isNewRecord \in {e.id = 0} :
          IF ~SupportsUpsert(driver)
          THEN AfterStatement(Reply(FALSE, tx.work, 0), 0, FALSE,
                              "unsupported database driver to execute Upsert", "")
          ELSE \E outcome \in {"ok", "failed", "panic"}, commitOk \in BOOLEAN :
                  IF outcome = "panic" THEN Recover
                  ELSE \E r \in {IF outcome = "ok"
                                 THEN UpsertStatement(driver, tx.work, e, call.f,
                                          isNewRecord /\ autoincrement,
                                          isNewRecord /\ autoincrement,
                                          uniqueName)
                                 ELSE Reply(FALSE, tx.work, 0)} :
                          AfterStatement(r, call.pos + 1, commitOk,
                                         "exec error", "erro ao fazer commit")
    /\ UNCHANGED <<filterVars, driver, qres, uniqueName, storeUpsertFilter, callsLeft, prevCall>>

NextTx ==
    \/ WithTransaction_Begin
    \/ Fn_Exec
    \/ WithTransaction_Return
    \/ WithTransaction_Recover
    \/ SaveMany_Begin
    \/ SaveMany_Step
    \/ UpdateMany_Begin
    \/ UpdateMany_Step
    \/ UpsertMany_Begin
    \/ UpsertMany_Step

\* a call that has begun goes on until it returns or panics
SpecTx == InitTx /\ [][NextTx]_vars /\ WF_vars(NextTx)

\* the unit of work calls Save of the store: the INSERT goes through s.db,
\* a connection outside the transaction, and is committed at once; the
\* transaction sees the row as every reader does
Fn_Save ==
    /\ Running("WithTransaction") /\ call.pos < MaxWrites
    /\ \E e \in BatchEntities, dbOk \in BOOLEAN :
       \E r \in {IF dbOk THEN InsertStatement(tx.work, e, uniqueName)
                 ELSE Reply(FALSE, tx.work, 0)} :
          IF r.ok
          THEN \E id \in {NextAutoId(tx.work)} :
                  /\ table' = PutRow(table, [e EXCEPT !.id = id])
                  /\ tx' = [tx EXCEPT !.work = r.rows]
                  /\ call' = [call EXCEPT !.pos = @ + 1, !.ids = @ \cup {id}]
          ELSE /\ table' = table
               /\ tx' = tx
               /\ call' = [call EXCEPT !.pos = @ + 1]
    /\ UNCHANGED <<filterVars, driver, qres, uniqueName, storeUpsertFilter,
                   callsLeft, prevCall>>

\* WithTransaction with a unit of work that writes through the handle and
\* through the store
NextTxStore ==
    \/ WithTransaction_Begin
    \/ Fn_Exec
    \/ Fn_Save
    \/ WithTransaction_Return
    \/ WithTransaction_Recover

SpecTxStore == InitTx /\ [][NextTxStore]_vars

-----------------------------------------------------------------------------
(* Properties of the transactions.                                         *)

BatchOps == {"SaveMany", "UpdateMany", "UpsertMany"}

CallOver == call.pc \in {"returned", "panicked"}

\* C1: once WithTransaction has returned from a transaction it began, the
\* table holds the rows the unit of work wrote through the handle and the
\* call returns the unit's result with no error if the unit returned no
\* error and the commit succeeded; otherwise the call returns an error and
\* the table is the table before the call.
C1_WithTransactionCommitsOrRestores ==
    (call.op = "WithTransaction" /\ call.pc = "returned" /\ tx.state # "none")
    => IF call.fn.err = "" /\ tx.state = "committed"
       THEN table = tx.work /\ call.result = call.fn.result /\ call.err = ""
       ELSE table = call.before /\ call.err # ""

\* a unit of work wrote rows and returned an error; the table is the table
\* before the call
C1_Witness ==
    /\ call.op = "WithTransaction" /\ call.pc = "returned"
    /\ call.fn.err # "" /\ tx.state = "rolledback"
    /\ Len(tx.work) > Len(call.before)
    /\ table = call.before

\* C2: when SaveMany, UpdateMany or UpsertMany has returned an error, the
\* table is the table before the call.
C2_BatchAllOrNothing ==
    (call.op \in BatchOps /\ call.pc = "returned" /\ call.err # "")
    => table = call.before

\* a batch failed after the statements before the failing entry had changed
\* rows; the table is the table before the call
C2_Witness ==
    /\ call.op \in BatchOps /\ call.pc = "returned" /\ call.err # ""
    /\ call.pos >= 1 /\ tx.work # call.before
    /\ table = call.before

\* at most one Commit or Rollback per transaction, and a call that is over
\* has ended the transaction it began with exactly one
TxEndedOnce ==
    /\ tx.commits + tx.rollbacks <= 1
    /\ CallOver =>
          /\ tx.state # "open"
          /\ tx.state # "none" => tx.commits + tx.rollbacks = 1

\* C3: every transaction begun by WithTransaction, SaveMany, UpdateMany or
\* UpsertMany is ended by exactly one Commit or Rollback when the call is
\* over, by return or by panic, and every open transaction is ended.
C3_EveryTransactionEnds ==
    /\ []TxEndedOnce
    /\ (tx.state = "open") ~> (tx.state # "open" /\ CallOver)

\* a batch loop panicked after a statement and the transaction was rolled
\* back once
C3_Witness ==
    /\ call.op \in BatchOps /\ call.pc = "panicked" /\ call.pos >= 1
    /\ tx.state = "rolledback" /\ tx.rollbacks = 1 /\ tx.commits = 0

-----------------------------------------------------------------------------
(* Save, FindById and Delete of one entity.  An entity is a struct value   *)
(* with a field of every kind the mapper tells apart; a row holds, per     *)
(* column, the value the database stored.                                  *)

MaxSaves == 2

\* the fields of the entity type: Go name, db tag, bson tag and kind
EntityFields ==
    <<[name |-> "ID",        db |-> "id",         bson |-> "_id",       kind |-> "int"],
      [name |-> "Name",      db |-> "name",       bson |-> "name",      kind |-> "string"],
      [name |-> "Age",       db |-> "age",        bson |-> "age",       kind |-> "int"],
      [name |-> "Active",    db |-> "active",     bson |-> "active",    kind |-> "bool"],
      [name |-> "Score",     db |-> "score",      bson |-> "score",     kind |-> "float64"],
      [name |-> "Level",     db |-> "level",      bson |-> "level",     kind |-> "int32"],
      [name |-> "Ignored",   db |-> "-",          bson |-> "-",         kind |-> "string"],
      [name |-> "CreatedAt", db |-> "created_at", bson |-> "createdAt", kind |-> "time"],
      [name |-> "UpdatedAt", db |-> "updated_at", bson |-> "updatedAt", kind |-> "time"]>>

FieldNames == {EntityFields[i].name : i \in 1..Len(EntityFields)}

FieldNamed(n) == EntityFields[CHOOSE i \in 1..Len(EntityFields) : EntityFields[i].name = n]

\* the zero value of a Go kind; a time is a number of ticks, 0 the zero time
ZeroOf(kind) ==
    IF kind = "string" THEN ""
    ELSE IF kind = "bool" THEN FALSE
    ELSE 0

\* reflect.New of the entity type
ZeroEntity == [n \in FieldNames |-> ZeroOf(FieldNamed(n).kind)]

Entity(id, nm, ag, ac, sc, lv, ig, cr, up) ==
    [ID |-> id, Name |-> nm, Age |-> ag, Active |-> ac, Score |-> sc,
     Level |-> lv, Ignored |-> ig, CreatedAt |-> cr, UpdatedAt |-> up]

\* a value as the database driver hands it to Scan into an `any`
DriverValue(type, v) == [type |-> type, v |-> v]

\* the value Scan yields for a Go value of the given kind once written to
\* its column and read back: SQLite gives int64, float64, string, bool
\* (column declared BOOLEAN) and time.Time (column declared TIMESTAMP);
\* MySQL gives int64 for integers and booleans, float64, and []byte for
\* text and for times
Scanned(drv, kind, v) ==
    IF kind \in {"int", "int32"} THEN DriverValue("int64", v)
    ELSE IF kind = "float64" THEN DriverValue("float64", v)
    ELSE IF kind = "bool"
    THEN IF drv = "sqlite" THEN DriverValue("bool", v)
         ELSE DriverValue("int64", IF v THEN 1 ELSE 0)
    ELSE IF kind = "string"
    THEN IF drv = "sqlite" THEN DriverValue("string", v)
         ELSE DriverValue("[]byte", v)
    ELSE IF drv = "sqlite" THEN DriverValue("time.Time", v)
         ELSE DriverValue("[]byte", ToString(v))

\* the numbers whose decimal text the column values carry
Digits == 0..9

\* strconv.ParseInt, strconv.ParseFloat and time.Parse of a text: the
\* number (the tick) the text is the decimal form of, or an error and 0
ParseInt(text) ==
    IF \E n \in Digits : ToString(n) = text
    THEN [ok |-> TRUE, n |-> CHOOSE n \in Digits : ToString(n) = text]
    ELSE [ok |-> FALSE, n |-> 0]

\* fmt.Sprintf("%v", b) of the byte slice of a text
SprintBytes(text) ==
    IF text = "1" THEN "[49]"
    ELSE IF text = "5" THEN "[53]"
    ELSE IF text = "true" THEN "[116 114 117 101]"
    ELSE "[97 98 99]"

\* fmt.Sprintf("%v", value)
Sprint(value) ==
    IF value.type = "string" THEN value.v
    ELSE IF value.type = "[]byte" THEN SprintBytes(value.v)
    ELSE IF value.type = "nil" THEN "<nil>"
    ELSE IF value.type = "bool" THEN (IF value.v THEN "true" ELSE "false")
    ELSE IF value.type = "time.Time" THEN "0001-01-01 00:00:0" \o ToString(value.v)
    ELSE ToString(value.v)

\* SQLStore.setValue: the field of the given kind after value is assigned
\* to it; old is the field before.  A kind outside the switch keeps old.
setValue(kind, old, value) ==
    IF kind = "bool"
    THEN IF value.type = "bool" THEN value.v
         ELSE IF value.type = "int64" THEN value.v # 0
         ELSE IF value.type \in {"[]byte", "string"}
         THEN value.v \in {"1", "true", "TRUE"}
         ELSE IF value.type = "float64" THEN value.v # 0
         ELSE old
    ELSE IF kind = "string"
    THEN IF value.type = "[]byte" THEN value.v ELSE Sprint(value)
    ELSE IF kind \in {"int", "int64"}
    THEN IF value.type = "int64" THEN value.v
         ELSE IF value.type = "[]byte" THEN ParseInt(value.v).n
         ELSE old
    ELSE IF kind = "float64"
    THEN IF value.type = "float64" THEN value.v
         ELSE IF value.type = "[]byte" THEN ParseInt(value.v).n
         ELSE old
    ELSE IF kind = "time"
    THEN IF value.type = "time.Time" THEN value.v
         ELSE IF value.type = "[]byte" THEN ParseInt(value.v).n
         ELSE old
    ELSE old

\* the row INSERT stores for entity e under primary key id: the values of
\* the statement's columns, the column default (the zero value) elsewhere
StoredRow(e, id) ==
    [n \in FieldNames |->
        IF n = "ID" THEN id
        ELSE IF FieldNamed(n).db = "-" THEN ZeroOf(FieldNamed(n).kind)
        ELSE e[n]]
        @@ [id |-> id]

\* SQLStore.parseRow: a zero entity whose fields with a db tag take the
\* scanned column values
parseEntity(drv, row) ==
    [n \in FieldNames |->
        IF FieldNamed(n).db \in {"", "-"} THEN ZeroEntity[n]
        ELSE setValue(FieldNamed(n).kind, ZeroEntity[n],
                      Scanned(drv, FieldNamed(n).kind, row[n]))]

\* a value as the bson codec writes it into a document
BsonValue(kind, v) ==
    IF kind \in {"int", "int32"} THEN DriverValue("int32", v)
    ELSE IF kind = "float64" THEN DriverValue("double", v)
    ELSE IF kind = "bool" THEN DriverValue("boolean", v)
    ELSE IF kind = "string" THEN DriverValue("string", v)
    ELSE DriverValue("datetime", v)

\* the bson codec's decoding of a document value into a field of a kind
bsonDecode(kind, old, value) ==
    IF \/ kind \in {"int", "int32"} /\ value.type \in {"int32", "int64"}
       \/ kind = "float64" /\ value.type = "double"
       \/ kind = "bool" /\ value.type = "boolean"
       \/ kind = "string" /\ value.type = "string"
       \/ kind = "time" /\ value.type = "datetime"
    THEN value.v
    ELSE old

\* Decode of a document into a zero entity: the fields with a bson tag
decodeEntity(doc) ==
    [n \in FieldNames |->
        IF FieldNamed(n).bson = "-" THEN ZeroEntity[n]
        ELSE bsonDecode(FieldNamed(n).kind, ZeroEntity[n],
                        BsonValue(FieldNamed(n).kind, doc[n]))]

Times == {1, 2}

SaveDrivers == {"sqlite", "mysql", "mongodb"}

\* the entities handed to Save
SaveEntities ==
    {Entity(0, "a", 30, TRUE, 80, 7, "x", 0, 0),
     Entity(1, "b", 0, FALSE, 0, 0, "", 1, 1),
     Entity(2, "", 25, TRUE, 5, 3, "y", 0, 0)}

SaveIds == 0..(MaxSaves + 1)

\* the conflict filter NewMongoStore of mongo.go gives the store
NewMongoStoreFilter == Filter("ID", "_id")

InitSave ==
    /\ filters = <<>>
    /\ iter = <<>>
    /\ plan = NoPlan
    /\ prevIter = <<>>
    /\ prevPlan = NoPlan
    /\ qres = NoResult
    /\ driver \in SaveDrivers
    /\ uniqueName = FALSE
    /\ storeUpsertFilter \in (IF driver = "mongodb"
                              THEN {NilFilter, NewMongoStoreFilter}
                              ELSE {NilFilter})
    /\ table = <<>>
    /\ callsLeft = MaxSaves
    /\ call = NoCall
    /\ tx = NoTx
    /\ prevCall = NoCall

\* a call on one entity that has returned, with the caller's entity after it
ReturnedEntity(op, e, after, err) ==
    [NoCall EXCEPT !.op = op, !.pc = "returned", !.batch = <<e>>,
                   !.before = table, !.err = err, !.entity = after]

\* SQLStore.Save(e): INSERT of the entity's columns; the generated id is
\* written to the caller's entity
SQLStore_Save ==
    /\ IsSQL /\ callsLeft > 0
    /\ \E e \in SaveEntities, dbOk \in BOOLEAN :
       \E id \in {IF autoincrement THEN NextAutoId(table) ELSE e.ID} :
          IF dbOk /\ id \notin IdsOf(table)
          THEN /\ table' = PutRow(table, StoredRow(e, id))
               /\ call' = ReturnedEntity("Save", e,
                              IF id > 0 THEN [e EXCEPT !.ID = id] ELSE e, "")
          ELSE /\ table' = table
               /\ call' = ReturnedEntity("Save", e, e, "exec error")
    /\ callsLeft' = callsLeft - 1
    /\ UNCHANGED <<filterVars, driver, qres, uniqueName, storeUpsertFilter, tx, prevCall>>

\* SQLStore.FindById(id)
SQLStore_FindById ==
    /\ IsSQL /\ callsLeft > 0
    /\ \E id \in SaveIds, dbOk \in BOOLEAN :
       \E found \in {SelectSeq(table, LAMBDA r : r.id = id)} :
          qres' = IF ~dbOk
                  THEN Result("FindById", <<>>, id, "error querying room", NoResult.opts)
                  ELSE IF Len(found) = 0
                  THEN Result("FindById", <<>>, id, "registro não encontrado",
                              NoResult.opts)
                  ELSE Result("FindById", <<parseEntity(driver, found[1])>>, id,
                              "", NoResult.opts)
    /\ callsLeft' = callsLeft - 1
    /\ UNCHANGED <<filterVars, driver, table, uniqueName, storeUpsertFilter, call,
                   tx, prevCall>>

\* mongoStore.Save(e): the timestamps are set on the caller's entity, then
\* InsertOne
mongoStore_Save ==
    /\ ~IsSQL /\ callsLeft > 0
    /\ \E e \in SaveEntities, now \in Times, dbOk \in BOOLEAN :
       \E stamped \in {[e EXCEPT !.CreatedAt = now, !.UpdatedAt = now]} :
          IF dbOk /\ e.ID \notin IdsOf(table)
          THEN /\ table' = PutRow(table, StoredRow(stamped, e.ID))
               /\ call' = ReturnedEntity("Save", e, stamped, "")
          ELSE /\ table' = table
               /\ call' = ReturnedEntity("Save", e, stamped,
                                         "erro ao salvar documento")
    /\ callsLeft' = callsLeft - 1
    /\ UNCHANGED <<filterVars, driver, qres, uniqueName, storeUpsertFilter, tx, prevCall>>

\* mongoStore.FindById(id)
mongoStore_FindById ==
    /\ ~IsSQL /\ callsLeft > 0
    /\ \E id \in SaveIds, dbOk \in BOOLEAN :
       \E found \in {SelectSeq(table, LAMBDA r : r.id = id)} :
          qres' = IF ~dbOk
                  THEN Result("FindById", <<>>, id, "erro ao buscar documento",
                              NoResult.opts)
                  ELSE IF Len(found) = 0
                  THEN Result("FindById", <<>>, id, "documento não encontrado",
                              NoResult.opts)
                  ELSE Result("FindById", <<decodeEntity(found[1])>>, id, "",
                              NoResult.opts)
    /\ callsLeft' = callsLeft - 1
    /\ UNCHANGED <<filterVars, driver, table, uniqueName, storeUpsertFilter, call,
                   tx, prevCall>>

\* a delete that takes the first row whatever the id
DeleteFirst(rows, id) == IF Len(rows) = 0 THEN rows ELSE Tail(rows)

\* DELETE FROM t WHERE id = ?, and DeleteOne({_id: id})
DeleteById(rows, id) == SelectSeq(rows, LAMBDA r : r.id # id)

\* a Delete that has returned
Deleted(id, err) ==
    [NoCall EXCEPT !.op = "Delete", !.pc = "returned", !.before = table,
                   !.count = id, !.err = err]

\* SQLStore.Delete(id): the error of the statement is returned, the number
\* of rows deleted is not looked at
SQLStore_Delete ==
    /\ IsSQL /\ callsLeft > 0
    /\ \E id \in SaveIds, dbOk \in BOOLEAN :
          IF dbOk
          THEN /\ table' = DeleteById(table, id)
               /\ call' = Deleted(id, "")
          ELSE /\ table' = table
               /\ call' = Deleted(id, "exec error")
    /\ callsLeft' = callsLeft - 1
    /\ UNCHANGED <<filterVars, driver, qres, uniqueName, storeUpsertFilter, tx, prevCall>>

\* mongoStore.Delete(id): an error when DeleteOne deleted nothing
mongoStore_Delete ==
    /\ ~IsSQL /\ callsLeft > 0
    /\ \E id \in SaveIds, dbOk \in BOOLEAN :
          IF dbOk
          THEN /\ table' = DeleteById(table, id)
               /\ call' = Deleted(id, IF Len(table') = Len(table)
                                      THEN "nenhum documento encontrado com id"
                                      ELSE "")
          ELSE /\ table' = table
               /\ call' = Deleted(id, "erro ao deletar documento")
    /\ callsLeft' = callsLeft - 1
    /\ UNCHANGED <<filterVars, driver, qres, uniqueName, storeUpsertFilter, tx, prevCall>>

-----------------------------------------------------------------------------
(* Upsert of a document: the update document and UpdateOne with upsert.    *)

BsonKeys == {EntityFields[i].bson : i \in 1..Len(EntityFields)} \ {"-"}

FieldOfBson(k) ==
    EntityFields[CHOOSE i \in 1..Len(EntityFields) : EntityFields[i].bson = k].name

\* bson.Marshal of the entity, then Unmarshal into a bson.M: the fields
\* under their bson keys
bsonM(e) == [k \in BsonKeys |-> e[FieldOfBson(k)]]

\* delete(m, key) for each of the keys
DeleteKeys(m, keys) == [k \in (DOMAIN m) \ keys |-> m[k]]

\* store.go: the $set clause
normalizeDocForUpsert(e) == DeleteKeys(bsonM(e), {"_id", "createdAt"})

\* mongo.go: the $set clause
removeIDToUpsert(e) == DeleteKeys(bsonM(e), {"_id"})

\* reflect's FieldByName over the entity with timestamps
FieldByName(e, key) ==
    [ok |-> key \in FieldNames, value |-> IF key \in FieldNames THEN e[key] ELSE 0]

\* the document after the fields of a clause are written to it
ApplyClause(doc, clause) ==
    [n \in DOMAIN doc |->
        IF n = "id"
        THEN IF "_id" \in DOMAIN clause THEN clause["_id"] ELSE doc[n]
        ELSE IF FieldNamed(n).bson \in DOMAIN clause
        THEN clause[FieldNamed(n).bson]
        ELSE doc[n]]

\* the equality fields of a filter, as a clause
EqualityClause(filter) ==
    [k \in {filter[i].Key : i \in 1..Len(filter)} |->
        filter[CHOOSE i \in 1..Len(filter) : filter[i].Key = k].Value]

DocMatches(doc, filter) ==
    \A i \in 1..Len(filter) :
        /\ filter[i].Key \in BsonKeys
        /\ doc[FieldOfBson(filter[i].Key)] = filter[i].Value

UpdateReply(ok, rows, matched, modified, upserted) ==
    [ok |-> ok, rows |-> rows, matched |-> matched, modified |-> modified,
     upserted |-> upserted]

\* UpdateOne(filter, {$set, $setOnInsert}) with upsert: the server rejects
\* an update whose two clauses name the same key; the first document the
\* filter matches takes the $set fields; when none matches, a document of
\* the filter's equality fields, the $set fields and the $setOnInsert
\* fields is inserted, which fails on a taken _id
UpdateOneDoc(coll, filter, set, setOnInsert) ==
    LET hit == {j \in 1..Len(coll) : DocMatches(coll[j], filter)}
        born == ApplyClause(ApplyClause(ApplyClause(ZeroEntity @@ [id |-> 0],
                              EqualityClause(filter)), set), setOnInsert)
    IN  IF (DOMAIN set) \cap (DOMAIN setOnInsert) # {}
        THEN UpdateReply(FALSE, coll, 0, 0, 0)
        ELSE IF hit # {}
        THEN LET j == CHOOSE m \in hit : \A n \in hit : m <= n IN
             UpdateReply(TRUE, [coll EXCEPT ![j] = ApplyClause(@, set)], 1,
                         IF ApplyClause(coll[j], set) = coll[j] THEN 0 ELSE 1, 0)
        ELSE IF born.id \in IdsOf(coll)
        THEN UpdateReply(FALSE, coll, 0, 0, 0)
        ELSE UpdateReply(TRUE, PutRow(coll, born), 0, 0, 1)

\* the conflict filters a caller hands to Upsert of store.go
DocFilters == {<<>>, <<Filter("ID", "_id")>>, <<Filter("Name", "name")>>}

\* the conflict filter a caller hands to Upsert of mongo.go: nil, or the name
DocFilterPointers == {NilFilter, Filter("Name", "name")}

\* an Upsert that has returned: the conflict filters it was handed and
\* the ones it used, the caller's entity after it and the counts of the
\* UpdateResult
UpsertReturned(e, f, used, after, r, err) ==
    [ReturnedEntity("Upsert", e, after, err)
        EXCEPT !.f = f, !.used = used, !.matched = r.matched,
               !.modified = r.modified, !.count = r.upserted]

\* store.go, mongoStore.Upsert(e, f)
mongoStore_Upsert_store ==
    /\ ~IsSQL /\ storeUpsertFilter = NilFilter /\ callsLeft > 0
    /\ \E e \in SaveEntities, f \in DocFilters, now \in Times, dbOk \in BOOLEAN :
       \E stamped \in {[e EXCEPT !.UpdatedAt = now]} :
       \E g \in {IF Len(f) = 0 THEN <<Filter("_id", "ID")>> ELSE f} :
          IF \E i \in 1..Len(g) : ~FieldByName(stamped, g[i].UpsertFieldKey).ok
          THEN /\ table' = table
               /\ call' = UpsertReturned(e, f, g, stamped,
                              UpdateReply(FALSE, table, 0, 0, 0),
                              "invalid upsert field name")
          ELSE \E r \in {IF dbOk
                         THEN UpdateOneDoc(table,
                                  [i \in 1..Len(g) |->
                                      [Key |-> g[i].UpsertBsonKey,
                                       Value |-> FieldByName(stamped,
                                                    g[i].UpsertFieldKey).value]],
                                  normalizeDocForUpsert(stamped),
                                  [k \in {"_id", "createdAt"} |->
                                      IF k = "_id" THEN e.ID ELSE now])
                         ELSE UpdateReply(FALSE, table, 0, 0, 0)} :
                  /\ table' = r.rows
                  /\ call' = UpsertReturned(e, f, g, stamped, r,
                                 IF r.ok THEN "" ELSE "erro ao atualizar documento")
    /\ callsLeft' = callsLeft - 1
    /\ UNCHANGED <<filterVars, driver, qres, uniqueName, storeUpsertFilter, tx, prevCall>>

\* mongo.go, mongoStore.Upsert(e, f): a filter that is not nil replaces the
\* store's own
mongoStore_Upsert_mongo ==
    /\ ~IsSQL /\ storeUpsertFilter # NilFilter /\ callsLeft > 0
    /\ \E e \in SaveEntities, f \in DocFilterPointers, now \in Times,
          dbOk \in BOOLEAN :
       \E stamped \in {[e EXCEPT !.CreatedAt = now, !.UpdatedAt = now]} :
       \E g \in {IF f # NilFilter THEN f ELSE storeUpsertFilter} :
       \E r \in {IF dbOk
                 THEN UpdateOneDoc(table,
                          <<[Key |-> g.UpsertBsonKey,
                             Value |-> FieldByName(stamped, g.UpsertFieldKey).value]>>,
                          removeIDToUpsert(stamped),
                          [k \in {"_id"} |-> e.ID])
                 ELSE UpdateReply(FALSE, table, 0, 0, 0)} :
          /\ storeUpsertFilter' = g
          /\ table' = r.rows
          /\ call' = UpsertReturned(e, <<f>>, <<g>>, stamped, r,
                         IF r.ok THEN "" ELSE "erro ao atualizar documento")
    /\ callsLeft' = callsLeft - 1
    /\ UNCHANGED <<filterVars, driver, qres, uniqueName, tx, prevCall>>

-----------------------------------------------------------------------------
(* SaveMany of the document store.                                         *)

\* the entity of SaveEntities with the given ID
SaveEntity(id) == CHOOSE e \in SaveEntities : e.ID = id

\* the batches handed to SaveMany: one with a document in the middle whose
\* id may be taken, one of two documents, one that repeats an id
SaveBatches ==
    {<<SaveEntity(1), SaveEntity(0), SaveEntity(2)>>,
     <<SaveEntity(0), SaveEntity(1)>>,
     <<SaveEntity(2), SaveEntity(2)>>}

RECURSIVE PutDocs(_, _, _)
\* the collection after the documents at the positions took are inserted
PutDocs(coll, docs, took) ==
    IF took = {} THEN coll
    ELSE LET i == CHOOSE m \in took : \A n \in took : m <= n IN
         PutDocs(PutRow(coll, StoredRow(docs[i], docs[i].ID)), docs, took \ {i})

\* InsertMany(docs) and InsertMany(docs, SetOrdered(false)): a document
\* whose _id is in the collection or earlier in the batch is not inserted;
\* an ordered insert stops at the first such document.  ids are the
\* InsertedIDs of the driver's result, which it returns with the error.
InsertMany(coll, docs, ordered) ==
    LET fresh == {i \in 1..Len(docs) :
                     /\ docs[i].ID \notin IdsOf(coll)
                     /\ \A j \in 1..(i - 1) : docs[j].ID # docs[i].ID}
        took  == IF ordered
                 THEN {i \in fresh : \A j \in 1..(i - 1) : j \in fresh}
                 ELSE fresh
    IN  [ok   |-> took = 1..Len(docs),
         rows |-> PutDocs(coll, docs, took),
         ids  |-> {docs[i].ID : i \in took}]

\* a SaveMany that has returned: result is "nil" for a nil *InsertManyResult
SavedMany(op, batch, result, ids, err) ==
    [NoCall EXCEPT !.op = op, !.pc = "returned", !.batch = batch,
                   !.before = table, !.err = err, !.result = result,
                   !.ids = ids]

\* the body SaveMany and SaveManyNotOrdered share
InsertBatch(op, ordered) ==
    /\ \E e \in SaveBatches, now \in Times, dbOk \in BOOLEAN :
       \E docs \in {[i \in 1..Len(e) |->
                       [e[i] EXCEPT !.CreatedAt = now, !.UpdatedAt = now]]} :
       \E r \in {IF dbOk THEN InsertMany(table, docs, ordered)
                 ELSE [ok |-> FALSE, rows |-> table, ids |-> {}]} :
          /\ table' = r.rows
          /\ call' = IF r.ok
                     THEN SavedMany(op, e, "InsertManyResult", r.ids, "")
                     ELSE SavedMany(op, e, "nil", {}, "erro ao criar documentos")
    /\ callsLeft' = callsLeft - 1
    /\ UNCHANGED <<filterVars, driver, qres, uniqueName, storeUpsertFilter, tx,
                   prevCall>>

\* mongoStore.SaveMany(e)
mongoStore_SaveMany ==
    /\ ~IsSQL /\ callsLeft > 0
    /\ InsertBatch("SaveMany", TRUE)

\* mongoStore.SaveManyNotOrdered(e)
mongoStore_SaveManyNotOrdered ==
    /\ ~IsSQL /\ callsLeft > 0
    /\ InsertBatch("SaveManyNotOrdered", FALSE)

NextSave ==
    \/ SQLStore_Save
    \/ SQLStore_FindById
    \/ SQLStore_Delete
    \/ mongoStore_Save
    \/ mongoStore_FindById
    \/ mongoStore_Delete
    \/ mongoStore_Upsert_store
    \/ mongoStore_Upsert_mongo
    \/ mongoStore_SaveMany
    \/ mongoStore_SaveManyNotOrdered

SpecSave == InitSave /\ [][NextSave]_vars

\* the fields the round trip is about: not the primary key, not a
\* timestamp, not ignored
RoundTripFields ==
    {n \in FieldNames :
        /\ FieldNamed(n).db \notin {PrimaryKey, "-"}
        /\ FieldNamed(n).kind # "time"}

\* C11: when the last write was a successful Save and FindById of the
\* saved entity's id has returned an entity, that entity has the saved
\* entity's value in every field that is not the primary key, a timestamp
\* or ignored.
C11_SaveFindByIdRoundTrip ==
    (/\ call.op = "Save" /\ call.err = ""
     /\ qres.op = "FindById" /\ qres.err = "" /\ qres.before = table
     /\ qres.count = call.entity.ID)
    => \A n \in RoundTripFields : qres.rows[1][n] = call.batch[1][n]

\* C12: when the unit of work returned an error, WithTransaction has
\* returned that same error.
C12_WithTransactionReturnsOriginalError ==
    (call.op = "WithTransaction" /\ call.pc = "returned" /\ call.fn.err # "")
    => call.err = call.fn.err

\* the errors UpdateMany returns for an entry without a filter or without
\* fields
ValidationErrors ==
    {"filtro é obrigatório para update",
     "campos para atualização são obrigatórios para update"}

\* C13: when UpdateMany has returned the error of an invalid entry, no
\* statement of the batch was executed before it.
C13_InvalidEntryFailsBeforeAnyStatement ==
    (call.op = "UpdateMany" /\ call.pc = "returned"
     /\ call.err \in ValidationErrors)
    => call.pos = 0

\* C14: when DeleteMany was called with a nil filter it has returned an
\* error and the table has as many rows as before the call.
C14_DeleteManyNilFilterFails ==
    (qres.op = "DeleteMany" /\ qres.nilFilter)
    => qres.err # "" /\ Len(table) = Len(qres.before)

\* a Delete has returned whose id no row had before the call
DeletedAbsent ==
    call.op = "Delete" /\ call.pc = "returned"
    /\ call.count \notin IdsOf(call.before)

\* C15, as the code has it: after a Delete with an id that no row or
\* document has, the store is as before the call; the document store has
\* returned an error, the SQL store has returned no error unless the
\* statement itself failed.
C15_DeleteAbsentLeavesStore ==
    DeletedAbsent
    => /\ table = call.before
       /\ IF IsSQL THEN call.err \in {"", "exec error"}
          ELSE call.err \in {"nenhum documento encontrado com id",
                             "erro ao deletar documento"}

\* C15, as stated: after a Delete with an id that no row or document has,
\* the call has returned an error and the store is as before the call.
C15_DeleteAbsentIsNotFound ==
    DeletedAbsent => call.err # "" /\ table = call.before

\* the SQL store deleted an id that none of the stored rows has and
\* returned no error
C15_Witness ==
    /\ IsSQL /\ DeletedAbsent /\ call.err = ""
    /\ Len(table) > 0 /\ table = call.before

\* C16: an Upsert on a store built with the Oracle driver, or with a
\* driver outside the enumeration, has returned the unsupported-driver
\* error and the table is as before the call.
C16_OracleUpsertIsUnsupported ==
    (call.op = "Upsert" /\ call.pc = "returned"
     /\ driver \in {"oracle", "unknown"})
    => /\ call.err = "unsupported database driver to execute Upsert"
       /\ table = call.before

\* C17: an Upsert that succeeds when no row had the conflict
\* value has added one row and reported upserted 1 and matched 0; a
\* following Upsert that succeeds with the same conflict value has reported
\* matched 1 and added no row.
C17_UpsertThenReupsertCounts ==
    /\ (/\ UpsertBackend /\ UpsertSucceeded(call)
        /\ HitOn(call.before, call.batch[1], MeantColumns(call.f)) = {})
       => /\ Len(table) = Len(call.before) + 1
          /\ call.count = 1 /\ call.matched = 0
    /\ (/\ UpsertBackend /\ UpsertSucceeded(prevCall) /\ UpsertSucceeded(call)
        /\ prevCall.f = call.f
        /\ SameOn(prevCall.batch[1], call.batch[1], MeantColumns(call.f)))
       => /\ call.matched = 1
          /\ Len(table) = Len(call.before)

\* C18: an Upsert of the document store that matched an existing document
\* leaves the `_id` and the `createdAt` of every stored document as they
\* were: the creation-only fields are written by the insert-only clause
\* alone.
C18_MatchingUpsertKeepsCreationFields ==
    (call.op = "Upsert" /\ call.pc = "returned" /\ call.err = ""
        /\ call.matched = 1)
    => /\ Len(table) = Len(call.before)
       /\ \A j \in 1..Len(table) :
             /\ table[j].id = call.before[j].id
             /\ table[j].CreatedAt = call.before[j].CreatedAt

\* C19: after a successful Upsert the caller's entity carries the primary
\* key of the row the call stored: a row whose key the table did not hold
\* before the call has the key the entity has after it.
C19_EntityCarriesGeneratedKey ==
    (call.op = "Upsert" /\ call.pc = "returned" /\ call.err = "")
    => \A k \in IdsOf(table) \ IdsOf(call.before) : call.entity.id = k

\* the stored row a returned entity was read from
StoredOf(e) == CHOOSE r \in {qres.before[i] : i \in 1..Len(qres.before)} : r.id = e.id

\* C20: a FindAll that returns without error returns its rows in the
\* order of the options' SortBy field (`createdAt` when none is given),
\* ascending unless OrderBy is "DESC"; under an empty filter map the rows
\* of a page are the ones standing at the page's positions in that order.
C20_FindAllOrderedBySortBy ==
    (qres.op = "FindAll" /\ qres.err = "") =>
        LET by   == qres.opts.SortBy
            dir  == qres.opts.OrderBy
            skip == IF qres.opts.Limit > 0
                    THEN Skip(qres.opts.Page, qres.opts.Limit) ELSE 0
            all  == {qres.before[i] : i \in 1..Len(qres.before)}
            Ahead(a, b) == IF dir = "DESC"
                           THEN SortRank(a, by) > SortRank(b, by)
                           ELSE SortRank(a, by) < SortRank(b, by)
        IN  /\ Sorted([i \in 1..Len(qres.rows) |-> StoredOf(qres.rows[i])],
                      by, dir)
            /\ (DOMAIN filters = {} /\ Len(qres.rows) > 0) =>
                  LET first == StoredOf(qres.rows[1]) IN
                  /\ Cardinality({r \in all : Ahead(r, first)}) <= skip
                  /\ Cardinality({r \in all : ~Ahead(first, r)}) >= skip + 1

\* C21: a SaveMany of the document store that failed, over a batch with a
\* document whose id is taken, returns with the error a result that is
\* not nil and lists the ids of the documents the call inserted.
C21_SaveManyFailureListsInserted ==
    (~IsSQL /\ call.op \in {"SaveMany", "SaveManyNotOrdered"}
        /\ call.pc = "returned" /\ call.err # ""
        /\ \E i \in 1..Len(call.batch) :
              \/ call.batch[i].ID \in IdsOf(call.before)
              \/ \E j \in 1..(i - 1) : call.batch[j].ID = call.batch[i].ID)
    => /\ call.result # "nil"
       /\ call.ids = IdsOf(table) \ IdsOf(call.before)

\* a key cut at its first "__": the text before it and the text after it
CutAtFirstSep(key) ==
    [field  |-> SubSeq(key, 1, IndexSep(key) - 1),
     suffix |-> SubSeq(key, IndexSep(key) + 2, Len(key))]

Suffixes ==
    {S_like, S_ilike, S_not_like, S_gt, S_lt, S_gte, S_lte, S_in, S_not,
     S_is_null, S_is_not_null}

\* C22: every key of the filter map is compiled to one predicate; a key
\* without "__" is an equality on the key; a key whose text after the
\* first "__" is an operator suffix is that operator on the text before
\* it; any other key is an equality on the field named by the full key.
C22_OperatorDerivationIsTotal ==
    plan # NoPlan =>
        /\ Len(plan.conds) = Cardinality(DOMAIN filters)
        /\ \A i \in 1..Len(plan.conds) :
              LET c   == plan.conds[i]
                  cut == CutAtFirstSep(c.key)
              IN  IF ContainsSep(c.key) /\ cut.suffix \in Suffixes
                  THEN /\ c.field = cut.field
                       /\ c.op = IF OperatorOf(cut.suffix) = "ILIKE_COMPAT"
                                 THEN "UPPER LIKE UPPER"
                                 ELSE OperatorOf(cut.suffix)
                  ELSE c.field = c.key /\ c.op = "="


\* C23: a key `field__ilike` is compiled to the predicate `field ILIKE ?`
\* with the filter value as its one parameter.
C23_IlikeCompilesToIlike ==
    \A i \in 1..Len(plan.conds) :
        LET c == plan.conds[i] IN
        (ContainsSep(c.key) /\ CutAtFirstSep(c.key).suffix = S_ilike) =>
            /\ c.text = CutAtFirstSep(c.key).field \o <<" ", "ILIKE", " ", "?">>
            /\ c.vals = <<filters[c.key]>>


\* C24: once WithTransaction has returned after its unit of work returned
\* an error, no row the unit saved through the store is in the table.
C24_StoreWritesBelongToTransaction ==
    (call.op = "WithTransaction" /\ call.pc = "returned" /\ call.fn.err # "")
    => call.ids \cap IdsOf(table) = {}


\* C25: an Upsert of the document store that keeps a conflict filter of
\* its own used the filter it was handed, and the primary-key default
\* when it was handed none, whatever the calls before it were handed.
C25_ConflictSpecIsPerCall ==
    (~IsSQL /\ storeUpsertFilter # NilFilter
        /\ call.op = "Upsert" /\ call.pc = "returned")
    => call.used = IF call.f = <<NilFilter>> THEN <<NewMongoStoreFilter>>
                   ELSE call.f


-----------------------------------------------------------------------------
(* The argument list of the SQL Upsert and UpsertMany.  A statement is    *)
(* the sequence of its ? placeholders, each named by the column it stands *)
(* against; an argument is named by the column it carries a value for and *)
(* by where the value comes from (the entity's field, or time.Now()).     *)

StructField(name, tag) == [name |-> name, tag |-> tag]

TestSQLEntity ==
    <<StructField("ID", "id"), StructField("Name", "name"),
      StructField("Age", "age"), StructField("Active", "active"),
      StructField("Score", "score"), StructField("CreatedAt", "created_at"),
      StructField("UpdatedAt", "updated_at")>>

TestSQLEntityWithoutTimestamps ==
    <<StructField("ID", "id"), StructField("Name", "name")>>

TestSQLEntityWithIgnoredField ==
    <<StructField("ID", "id"), StructField("Name", "name"),
      StructField("Ignored", "-")>>

EntityTypes ==
    {TestSQLEntity, TestSQLEntityWithoutTimestamps, TestSQLEntityWithIgnoredField}

\* v.FieldByName("UpdatedAt").IsValid()
HasUpdatedAt(T) == \E i \in 1..Len(T) : T[i].name = "UpdatedAt"

TagsOf(T) == [i \in 1..Len(T) |-> T[i].tag]

\* the conflict columns in the order of the caller's filters
ConflictFieldList(f) ==
    LET g == IF Len(f) = 0 THEN <<Filter(PrimaryKey, "ID")>> ELSE f IN
    [i \in 1..Len(g) |->
        IF g[i].UpsertFieldKey = "" THEN PrimaryKey ELSE g[i].UpsertFieldKey]

InList(x, q) == \E i \in 1..Len(q) : q[i] = x

\* fields: the db tags of the struct but "-", and but the primary key when
\* skipId
UpsertFields(T, skipId) ==
    LET keep(t) == t # "-" /\ ~(skipId /\ t = PrimaryKey) IN
    SelectSeq(TagsOf(T), keep)

FieldArg(col) == [col |-> col, from |-> "field"]

NowArg == [col |-> "updated_at", from |-> "now"]

FieldArgs(cols) == [i \in 1..Len(cols) |-> FieldArg(cols[i])]

\* values before the driver switch: one per field, then time.Now() when
\* the struct has UpdatedAt
UpsertValues(T, skipId) ==
    FieldArgs(UpsertFields(T, skipId))
        \o (IF HasUpdatedAt(T) THEN <<NowArg>> ELSE <<>>)

\* the ? of updates: "c = VALUES(c)" holds none, "updated_at = ?" one
UpdatesPlaceholders(T) == IF HasUpdatedAt(T) THEN <<"updated_at">> ELSE <<>>

\* the fields that are not conflict columns
NonConflict(T, f, skipId) ==
    LET free(c) == ~InList(c, ConflictFieldList(f)) IN
    SelectSeq(UpsertFields(T, skipId), free)

\* the conflict columns that are the db tag of a field of the struct
TaggedConflict(T, f) ==
    LET tagged(c) == InList(c, TagsOf(T)) IN
    SelectSeq(ConflictFieldList(f), tagged)

\* the ? of the statement of driver drv, in order
UpsertQueryPlaceholders(drv, T, f, skipId) ==
    IF drv \in {"mysql", "mariadb", "postgres"}
    THEN UpsertFields(T, skipId) \o UpdatesPlaceholders(T)
    ELSE IF drv = "sqlite"
    THEN UpsertFields(T, skipId)
    ELSE ConflictFieldList(f) \o NonConflict(T, f, skipId)
            \o UpdatesPlaceholders(T) \o UpsertFields(T, skipId)

\* the arguments handed to ExecContext with it
UpsertQueryArgs(drv, T, f, skipId) ==
    IF drv = "oracle"
    THEN FieldArgs(TaggedConflict(T, f)) \o FieldArgs(NonConflict(T, f, skipId))
            \o (IF HasUpdatedAt(T) THEN <<NowArg>> ELSE <<>>)
            \o UpsertValues(T, skipId)
    ELSE UpsertValues(T, skipId)

ArgFilters ==
    {<<>>, <<Filter("id", "ID")>>, <<Filter("", "")>>,
     <<Filter("name", "Name")>>,
     <<Filter("name", "Name"), Filter("age", "Age")>>}

\* the drivers the switch of Upsert has a case for
ArgDrivers == {"mysql", "mariadb", "sqlite", "postgres", "oracle"}

InitArgs ==
    /\ filters = <<>>
    /\ iter = <<>>
    /\ plan = NoPlan
    /\ prevIter = <<>>
    /\ prevPlan = NoPlan
    /\ qres = NoResult
    /\ driver \in ArgDrivers
    /\ table = <<>>
    /\ uniqueName = FALSE
    /\ storeUpsertFilter = NilFilter
    /\ callsLeft = MaxUpserts
    /\ call = NoCall
    /\ tx = NoTx
    /\ prevCall = NoCall

\* the statement and the arguments of one ExecContext of op
Built(op, T, f, isNew, auto, skipId) ==
    [NoCall EXCEPT !.op = op, !.pc = "built", !.entity = T, !.f = f,
                   !.isNew = isNew, !.auto = auto,
                   !.query = UpsertQueryPlaceholders(driver, T, f, skipId),
                   !.args = UpsertQueryArgs(driver, T, f, skipId)]

\* SQLStore.Upsert up to its ExecContext: the primary key is never skipped
SQLStore_Upsert_Exec ==
    /\ callsLeft > 0
    /\ \E T \in EntityTypes, f \in ArgFilters, isNew \in BOOLEAN,
          auto \in BOOLEAN :
          call' = Built("Upsert", T, f, isNew, auto, FALSE)
    /\ callsLeft' = callsLeft - 1
    /\ UNCHANGED <<filterVars, queryVars, uniqueName, storeUpsertFilter, tx,
                   prevCall>>

\* SQLStore.UpsertMany up to the ExecContext of one entity of the batch:
\* the primary key is skipped for a new record of an autoincrement store
SQLStore_UpsertMany_Exec ==
    /\ callsLeft > 0
    /\ \E T \in EntityTypes, f \in ArgFilters, isNew \in BOOLEAN,
          auto \in BOOLEAN :
          call' = Built("UpsertMany", T, f, isNew, auto, isNew /\ auto)
    /\ callsLeft' = callsLeft - 1
    /\ UNCHANGED <<filterVars, queryVars, uniqueName, storeUpsertFilter, tx,
                   prevCall>>

NextArgs == SQLStore_Upsert_Exec \/ SQLStore_UpsertMany_Exec

SpecArgs == InitArgs /\ [][NextArgs]_vars

\* C26: for every supported driver and every entity type, with or without
\* an UpdatedAt field, the argument list Upsert and UpsertMany hand to the
\* statement has exactly as many values as the statement has placeholders,
\* each the value of the column its placeholder stands against.
C26_ArgsMatchPlaceholders ==
    (call.pc = "built" /\ SupportsUpsert(driver))
    => /\ Len(call.args) = Len(call.query)
       /\ \A i \in 1..Len(call.query) : call.args[i].col = call.query[i]


-----------------------------------------------------------------------------
(* parseRow of one column into one field.  The kind of a pointer field is *)
(* the kind of its element behind a star; a pointer field is nil or holds *)
(* a value.                                                                *)

ElemKinds == {"bool", "string", "int", "int64", "int32", "float64", "time",
              "DatabaseDriver"}

Ptr(kind) == "*" \o kind

FieldKinds == (ElemKinds \ {"DatabaseDriver"}) \cup {Ptr(k) : k \in ElemKinds}

IsPtr(kind) == \E k \in ElemKinds : kind = Ptr(k)

Elem(kind) == CHOOSE k \in ElemKinds : kind = Ptr(k)

NilPtr == [nil |-> TRUE, v |-> 0]

PtrTo(v) == [nil |-> FALSE, v |-> v]

\* the zero value of a field of the kind
ZeroField(kind) == IF IsPtr(kind) THEN NilPtr ELSE ZeroOf(kind)

\* the Go type of the values of a kind
TypeOfKind(kind) == IF kind = "time" THEN "time.Time" ELSE kind

Conv(type, v) == [err |-> FALSE, panic |-> FALSE, type |-> type, v |-> v]

ConvErr == [err |-> TRUE, panic |-> FALSE, type |-> "", v |-> 0]

ConvPanic == [err |-> FALSE, panic |-> TRUE, type |-> "", v |-> 0]

\* reflect's Value.Convert is defined between numbers, and from a type to
\* itself; elsewhere it panics
Convertible(from, kind) ==
    \/ from = TypeOfKind(kind)
    \/ from \in {"int64", "float64"} /\ kind \in {"int", "int64", "int32", "float64"}

\* the parse of the default cases: of the formatted value
ParseFormatted(value) == ParseInt(Sprint(value))

\* SQLStore.convertToType: the value converted for a pointer's element of
\* the kind, an error, or a panic of reflect
convertToType(value, kind) ==
    IF value.type = TypeOfKind(kind) THEN Conv(value.type, value.v)
    ELSE IF kind = "string" THEN Conv("string", Sprint(value))
    ELSE IF kind \in {"int", "int64"}
    THEN IF value.type = "[]byte"
         THEN IF ParseInt(value.v).ok THEN Conv("int64", ParseInt(value.v).n)
              ELSE ConvErr
         ELSE IF value.type = "int64" THEN Conv(kind, value.v)
         ELSE IF ParseFormatted(value).ok
         THEN Conv("int64", ParseFormatted(value).n)
         ELSE ConvErr
    ELSE IF kind = "float64"
    THEN IF value.type = "[]byte"
         THEN IF ParseInt(value.v).ok THEN Conv("float64", ParseInt(value.v).n)
              ELSE ConvErr
         ELSE IF ParseFormatted(value).ok
         THEN Conv("float64", ParseFormatted(value).n)
         ELSE ConvErr
    ELSE IF kind = "time" /\ value.type = "[]byte"
    THEN IF ParseInt(value.v).ok THEN Conv("time.Time", ParseInt(value.v).n)
         ELSE ConvErr
    ELSE IF Convertible(value.type, kind) THEN Conv(TypeOfKind(kind), value.v)
    ELSE ConvPanic

\* enum.ParseDatabaseDriver
ParseDatabaseDriver(text) ==
    IF text \in {"oracle", "postgres", "mysql", "sqlite", "mariadb"}
    THEN [ok |-> TRUE, v |-> text]
    ELSE [ok |-> FALSE, v |-> ""]

Set(field) == [panic |-> FALSE, field |-> field]

SetPanics == [panic |-> TRUE, field |-> NilPtr]

\* the reflect.Ptr case of setValue: a nil column leaves the pointer nil, an
\* element that converts from a string is parsed, any other is converted
\* and stored with reflect's Set, which panics on a value of another type
setPointer(kind, value) ==
    IF value.type = "nil" THEN Set(NilPtr)
    ELSE IF kind = "DatabaseDriver"
    THEN LET parsed == ParseDatabaseDriver(IF value.type = "[]byte" THEN value.v
                                            ELSE Sprint(value)) IN
         IF parsed.ok THEN Set(PtrTo(parsed.v)) ELSE Set(NilPtr)
    ELSE LET c == convertToType(value, kind) IN
         IF c.panic THEN SetPanics
         ELSE IF c.err THEN Set(NilPtr)
         ELSE IF c.type # TypeOfKind(kind) THEN SetPanics
         ELSE Set(PtrTo(c.v))

\* setValue over a zero field of any kind
setField(kind, value) ==
    IF IsPtr(kind) THEN setPointer(Elem(kind), value)
    ELSE Set(setValue(kind, ZeroOf(kind), value))

\* the column values Scan hands over
ColumnValues ==
    {DriverValue("nil", 0), DriverValue("time.Time", 1),
     DriverValue("float64", 2)}
    \cup {DriverValue("int64", n) : n \in {0, 1, 5}}
    \cup {DriverValue("bool", b) : b \in BOOLEAN}
    \cup {DriverValue("string", t) :
            t \in {"1", "0", "true", "TRUE", "True", "false", "FALSE", "False",
                   "abc", "mysql"}}
    \cup {DriverValue("[]byte", t) : t \in {"1", "5", "true", "abc"}}

InitParse ==
    /\ filters = <<>>
    /\ iter = <<>>
    /\ plan = NoPlan
    /\ prevIter = <<>>
    /\ prevPlan = NoPlan
    /\ qres = NoResult
    /\ driver = "sqlite"
    /\ table = <<>>
    /\ uniqueName = FALSE
    /\ storeUpsertFilter = NilFilter
    /\ callsLeft = 1
    /\ \E k \in FieldKinds, value \in ColumnValues :
          call = [NoCall EXCEPT !.op = "parseRow", !.pc = "scanned",
                                !.entity = [kind |-> k, value |-> value,
                                            field |-> ZeroField(k)]]
    /\ tx = NoTx
    /\ prevCall = NoCall

\* parseRow after its Scan: the column is set into the field
parseRow_setValue ==
    /\ call.op = "parseRow" /\ call.pc = "scanned"
    /\ \E r \in {setField(call.entity.kind, call.entity.value)} :
          call' = [call EXCEPT !.pc = IF r.panic THEN "panicked" ELSE "returned",
                               !.entity.field = r.field]
    /\ callsLeft' = callsLeft - 1
    /\ UNCHANGED <<filterVars, queryVars, uniqueName, storeUpsertFilter, tx,
                   prevCall>>

NextParse == parseRow_setValue

SpecParse == InitParse /\ [][NextParse]_vars

\* C27: parseRow never crashes, for every combination of destination field
\* type (pointer fields included) and column value.
C27_ParseRowNeverCrashes ==
    call.op = "parseRow" => call.pc # "panicked"

BoolTrueValues ==
    {DriverValue("bool", TRUE), DriverValue("int64", 1)}
    \cup {DriverValue("string", t) : t \in {"1", "true", "TRUE", "True"}}

BoolFalseValues ==
    {DriverValue("bool", FALSE), DriverValue("int64", 0)}
    \cup {DriverValue("string", t) : t \in {"0", "false", "FALSE", "False"}}

\* C28: a boolean field is true for the native true, the integer 1 and the
\* strings "1" and "true" in any letter case, and false for the native
\* false, the integer 0 and the strings "0" and "false" in any letter case.
C28_BooleanCoercion ==
    (call.op = "parseRow" /\ call.pc = "returned" /\ call.entity.kind = "bool")
    => /\ call.entity.value \in BoolTrueValues => call.entity.field = TRUE
       /\ call.entity.value \in BoolFalseValues => call.entity.field = FALSE


\* the IN predicates of the clause whose list between the parentheses is
\* empty: the grammar of SQL asks for at least one value there, and MySQL,
\* MariaDB, PostgreSQL and Oracle reject the statement (SQLite reads it as
\* a predicate that is false of every row)
EmptyInLists(w) ==
    {i \in 1..Len(w.conds) :
        w.conds[i].op = "IN" /\ Placeholders(w.conds[i].text) = 0}

\* the filter has an IN entry whose value is a slice of length zero
HasEmptyIn(f) ==
    \E k \in DOMAIN f :
        KeyOperator(k) = "IN" /\ IsSlice(f[k]) /\ Len(f[k].l) = 0

\* C29: a field__in entry whose value is a zero-length sequence compiles
\* to a well-formed predicate, one no database reports as a malformed
\* clause: no IN predicate of the clause has an empty list.
C29_EmptyInIsWellFormed ==
    (Compiled /\ HasEmptyIn(filters))
    => EmptyInLists(plan) = {}


\* the table Upsert(e, f) leaves from rows when its statement is run: the
\* primary key is in the column list and SQLite takes INSERT OR REPLACE
UpsertLeaves(rows, e, f) ==
    UpsertStatement(driver, rows, e, f, FALSE, FALSE, uniqueName).rows

\* C30: UpsertMany with a list of one entity leaves the table as Upsert of
\* that entity with the same conflict spec leaves it from the same starting
\* table, for a new entity (zero id) as for one whose id exists.
C30_UpsertManyOfOneIsUpsert ==
    (/\ call.op = "UpsertMany" /\ call.pc = "returned" /\ call.err = ""
     /\ Len(call.batch) = 1 /\ SupportsUpsert(driver))
    => table = UpsertLeaves(call.before, call.batch[1], call.f)

=============================================================================
